---- MODULE Spec2Model ----
(***************************************************************************)
(* Model of the parallel story scheduler of ralph (src/parallel/           *)
(* scheduler.rs): ParallelRunner::run, the tasks it spawns, the shared     *)
(* ParallelExecutionState, the semaphore and the evidence log.             *)
(*                                                                         *)
(* The supervisor (run) is one sequential process whose position is pc;    *)
(* every spawned task is a process of its own held in a slot of tasks.     *)
(* A step of the supervisor or of a task is one action; the steps are cut  *)
(* where the code awaits (state lock, join, executor call).                *)
(***************************************************************************)
EXTENDS Integers, Sequences, FiniteSets, TLC

\* ------------------------------------------------------------------ bounds
\* Runs are followed while their evidence log holds at most MaxEvents
\* records: a step that would append beyond that is not taken (the log on
\* disk is unbounded).
MaxEvents == 4
\* Task slots: one more than the largest max_concurrency of Configs, so that
\* a task spawned beyond the cap would have a slot to show itself in.
TaskSlots == 3

\* The longest target_files argument of a call exercised on its own.
MaxFiles == 2

\* ------------------------------------------------------------- story sets
\* A path is a sequence of characters (small numbers), so that the substring
\* tests of get_affected_stories can be computed.
F1 == <<1>>
F2 == <<2>>
F12 == <<1, 2>>

NoStory == "none"
StoryIds == {"a", "b", "c"}
\* Lexicographic order of the ids (String's Ord).
IdRank == [s \in StoryIds |-> CASE s = "a" -> 1 [] s = "b" -> 2 [] s = "c" -> 3]

StoryNode(p, passes, files, deps) ==
    [priority |-> p, passes |-> passes, target_files |-> files, depends_on |-> deps]

\* Two stories on the same file, different priorities.
PrdOverlap ==
    [s \in {"a", "b"} |->
        IF s = "a" THEN StoryNode(1, FALSE, <<F1>>, {})
                   ELSE StoryNode(2, FALSE, <<F1>>, {})]
\* Two independent stories.
PrdIndep ==
    [s \in {"a", "b"} |->
        IF s = "a" THEN StoryNode(1, FALSE, <<F1>>, {})
                   ELSE StoryNode(2, FALSE, <<F2>>, {})]
\* b depends on a; a already passes.
PrdChain ==
    [s \in {"a", "b"} |->
        IF s = "a" THEN StoryNode(1, TRUE, <<F1>>, {})
                   ELSE StoryNode(1, FALSE, <<F12, F2>>, {"a"})]
\* Every story already passes.
PrdAllPass ==
    [s \in {"a", "b"} |->
        IF s = "a" THEN StoryNode(1, TRUE, <<F1>>, {})
                   ELSE StoryNode(2, TRUE, <<F2>>, {})]
\* A dependency cycle.
PrdCycle ==
    [s \in {"a", "b"} |->
        IF s = "a" THEN StoryNode(1, FALSE, <<F1>>, {"b"})
                   ELSE StoryNode(2, FALSE, <<F2>>, {"a"})]

Policies == {"Block", "Reject", "DropOldest"}

\* What execute_story can return: success, success=false, or a typed error
\* classified Transient, UsageLimit, Fatal or Timeout.
Outcomes == {"ok", "gate", "transient", "usage_limit", "fatal", "timeout"}

\* ParallelRunnerConfig plus the environment of the run: the story set on
\* disk (prd), whether it loads, whether an agent command is found, and the
\* outcomes the injected story executor produces in this run.
Config(prd, n, k, policy, fb, thr, load_ok, agent, outcomes) ==
    [prd |-> prd, max_concurrency |-> n, queue_capacity |-> k,
     queue_policy |-> policy, fallback_to_sequential |-> fb,
     circuit_breaker_threshold |-> thr, load_ok |-> load_ok, agent |-> agent,
     outcomes |-> outcomes]

Configs ==
    {Config(PrdOverlap, 2, 2, "Block", FALSE, 2, TRUE, TRUE, {"ok", "gate", "transient"}),
     Config(PrdIndep, 2, 2, "Block", FALSE, 2, TRUE, TRUE, {"ok", "transient", "fatal"}),
     Config(PrdOverlap, 1, 1, "Block", FALSE, 2, TRUE, TRUE, {"ok"}),
     Config(PrdIndep, 1, 2, "Block", FALSE, 2, TRUE, TRUE, Outcomes),
     Config(PrdIndep, 1, 2, "Block", TRUE, 3, TRUE, TRUE, {"ok", "gate"}),
     Config(PrdIndep, 2, 1, "Block", FALSE, 2, TRUE, TRUE, {"ok"}),
     Config(PrdIndep, 2, 1, "Reject", FALSE, 1, TRUE, TRUE, {"ok", "fatal"}),
     Config(PrdIndep, 1, 1, "DropOldest", FALSE, 2, TRUE, TRUE, {"ok", "gate"}),
     Config(PrdChain, 1, 1, "Block", TRUE, 0, TRUE, TRUE, Outcomes),
     Config(PrdAllPass, 1, 1, "Block", FALSE, 1, TRUE, TRUE, Outcomes),
     Config(PrdAllPass, 1, 1, "Block", FALSE, 1, TRUE, FALSE, Outcomes),
     Config(PrdCycle, 1, 1, "Block", FALSE, 1, TRUE, TRUE, Outcomes),
     Config(PrdIndep, 1, 1, "Block", FALSE, 1, FALSE, TRUE, Outcomes),
     Config(PrdIndep, 1, 1, "Block", FALSE, 1, TRUE, FALSE, Outcomes)}

\* ------------------------------------------------------------------ state
VARIABLES
    cfg,                \* the configuration of this run (never changes)
    pc,                 \* position of run()
    in_flight,          \* ParallelExecutionState.in_flight
    completed,          \* ParallelExecutionState.completed
    failed,             \* ParallelExecutionState.failed (its key set)
    locked_files,       \* ParallelExecutionState.locked_files: path -> story id
    permits,            \* permits available in the semaphore
    pending_queue,      \* VecDeque of story ids
    queued_ids,         \* mirror set of the queue
    snap_completed,     \* run()'s local copy of completed (line 600)
    snap_in_flight,     \* run()'s local copy of in_flight (line 601)
    ready_empty,        \* run()'s local ready_empty (line 616)
    dispatch_slots,     \* run()'s local dispatch_slots
    handles,            \* slots of the tasks spawned in this turn
    batch_story_ids,    \* run()'s local batch_story_ids (a sequence)
    retry_list,         \* affected stories still to re-execute sequentially
    retrying,           \* the story run_reconciliation is re-executing, or NoStory
    cumulative_failures,
    tasks,              \* slot -> spawned task
    evidence,           \* events.jsonl of the run: sequence of lifecycle events
    result,             \* RunResult and the run_complete status, once returned
    call,               \* the last call of a function exercised on its own, or NoCall
    tracker,            \* a TokenBudget exercised on its own, or NoTracker
    monitor,            \* a HeartbeatMonitor exercised on its own, or NoMonitor
    store,              \* an EvidenceStore exercised on its own, or NoStore
    collector           \* a RunMetricsCollector exercised on its own, or NoCollector

vars == <<cfg, pc, in_flight, completed, failed, locked_files, permits,
          pending_queue, queued_ids, snap_completed, snap_in_flight, ready_empty,
          dispatch_slots, handles, batch_story_ids, retry_list, retrying,
          cumulative_failures, tasks, evidence, result, call, tracker, monitor,
          store, collector>>

\* What a run of the scheduler never touches.
apart == <<call, tracker, monitor, store, collector>>
NoCall == [fn |-> "none"]
NoTracker == [config |-> "none"]
\* Nothing is exercised on its own.
NoMonitor == [config |-> "none"]
NoStore == [config |-> "none"]
NoCollector == [run_id |-> "none"]
Idle ==
    /\ call = NoCall
    /\ tracker = NoTracker
    /\ monitor = NoMonitor
    /\ store = NoStore
    /\ collector = NoCollector

Slots == 1..TaskSlots
Prd == cfg.prd
AllStories == DOMAIN cfg.prd

FreeTask == [st |-> "free", story |-> NoStory, success |-> FALSE,
             transient |-> FALSE, label |-> "none", events |-> 0]
NoResult == [status |-> "none", error_type |-> "none", all_passed |-> FALSE,
             stories_passed |-> 0, total_stories |-> 0]

\* ----------------------------------------------------------- evidence log
Event(type, step, status, error_type) ==
    [type |-> type, step_id |-> step, status |-> status, error_type |-> error_type]

\* EvidenceStore::append_record through EvidenceWriter::write_event.
AppendEvent(log, e) == Append(log, e)
\* The log has room for n more records.
Room(n) == Len(evidence) + n <= MaxEvents

\* The empty lock map.
NoLocks == [p \in {} |-> NoStory]

\* The runner under configuration c before run() is called, lock map aside.
Unstarted(c) ==
    /\ cfg = c
    /\ pc = "start"
    /\ in_flight = {}
    /\ completed = {}
    /\ failed = {}
    /\ permits = cfg.max_concurrency
    /\ pending_queue = <<>>
    /\ queued_ids = {}
    /\ snap_completed = {}
    /\ snap_in_flight = {}
    /\ ready_empty = FALSE
    /\ dispatch_slots = 0
    /\ handles = {}
    /\ batch_story_ids = <<>>
    /\ retry_list = <<>>
    /\ retrying = NoStory
    /\ cumulative_failures = 0
    /\ tasks = [t \in Slots |-> FreeTask]
    /\ evidence = <<Event("run_start", "run", "none", "none")>>
    /\ result = NoResult

Init ==
    /\ \E c \in Configs : Unstarted(c)
    /\ locked_files = NoLocks
    /\ Idle

\* ------------------------------------------------------------- file locks
Range(f) == {f[i] : i \in DOMAIN f}

\* acquire_locks returns true iff no target file is locked by another story.
AcquireOk(locked, story_id, target_files) ==
    \A i \in 1..Len(target_files) :
        target_files[i] \in DOMAIN locked => locked[target_files[i]] = story_id

\* An acquire_locks that takes every free target file as it goes and leaves
\* them taken when a later file is locked by another story.
AcquireWithoutRollback(locked, story_id, target_files) ==
    [p \in DOMAIN locked \cup Range(target_files) |->
        IF p \in Range(target_files) /\ (p \notin DOMAIN locked \/ locked[p] = story_id)
        THEN story_id ELSE locked[p]]

\* The lock map after acquire_locks: on success every target file is
\* inserted for story_id, on failure nothing is added.
AcquireLocks(locked, story_id, target_files) ==
    IF AcquireOk(locked, story_id, target_files)
    THEN [p \in DOMAIN locked \cup Range(target_files) |->
             IF p \in Range(target_files) THEN story_id ELSE locked[p]]
    ELSE locked

\* release_locks: retain the entries of the other stories.
ReleaseLocks(locked, story_id) ==
    [p \in {q \in DOMAIN locked : locked[q] # story_id} |-> locked[p]]

\* -------------------------------------------------------- dependency graph
RECURSIVE Reach(_, _, _)
Reach(prd, S, n) ==
    IF n = 0 THEN S
    ELSE Reach(prd, S \cup UNION {prd[s].depends_on \cap DOMAIN prd : s \in S}, n - 1)

\* DependencyGraph::validate fails iff some story depends on itself through
\* depends_on edges.
HasCycle(prd) ==
    \E s \in DOMAIN prd :
        s \in Reach(prd, prd[s].depends_on \cap DOMAIN prd, Cardinality(DOMAIN prd))

\* Order of the graph's priority traversal: ascending priority number, then id.
Before(a, b) ==
    \/ Prd[a].priority < Prd[b].priority
    \/ Prd[a].priority = Prd[b].priority /\ IdRank[a] < IdRank[b]

RECURSIVE SortByPriority(_)
SortByPriority(S) ==
    IF S = {} THEN <<>>
    ELSE LET m == CHOOSE x \in S : \A y \in S \ {x} : Before(x, y)
         IN <<m>> \o SortByPriority(S \ {m})

\* DependencyGraph::get_ready_stories(completed): the stories not in completed
\* whose dependencies are all in completed, in priority order.
GetReadyStories(done) ==
    SortByPriority({s \in AllStories : s \notin done /\ Prd[s].depends_on \subseteq done})

\* -------------------------------------------------- pre-execution conflicts
Overlap(a, b) ==
    Range(Prd[a].target_files) \cap Range(Prd[b].target_files) # {}

\* The pair with the higher-priority story deferred.
ConflictPairReversed(a, b) ==
    IF Prd[a].priority > Prd[b].priority THEN <<b, a>>
    ELSE IF Prd[b].priority > Prd[a].priority THEN <<a, b>>
    ELSE IF IdRank[a] > IdRank[b] THEN <<b, a>>
    ELSE <<a, b>>

\* The pair pushed for stories[i] = a and stories[j] = b: <<deferred, winner>>.
ConflictPair(a, b) ==
    IF Prd[a].priority > Prd[b].priority THEN <<a, b>>
    ELSE IF Prd[b].priority > Prd[a].priority THEN <<b, a>>
    ELSE IF IdRank[a] > IdRank[b] THEN <<a, b>>
    ELSE <<b, a>>

RECURSIVE ConflictsFrom(_, _, _)
ConflictsFrom(stories, i, j) ==
    IF i > Len(stories) THEN <<>>
    ELSE IF j > Len(stories) THEN ConflictsFrom(stories, i + 1, i + 2)
    ELSE (IF Overlap(stories[i], stories[j])
          THEN <<ConflictPair(stories[i], stories[j])>> ELSE <<>>)
         \o ConflictsFrom(stories, i, j + 1)

detect_preexecution_conflicts(stories) == ConflictsFrom(stories, 1, 2)

\* The filter that defers a story only for a conflict with a story that is
\* not itself deferred.
filter_against_kept(stories) ==
    LET conflicts == detect_preexecution_conflicts(stories)
        losers == {conflicts[i][1] : i \in DOMAIN conflicts}
        deferred_ids == {conflicts[i][1] : i \in {k \in DOMAIN conflicts :
                                                    conflicts[k][2] \notin losers}}
    IN [filtered |-> SelectSeq(stories, LAMBDA s : s \notin deferred_ids),
        conflicts |-> conflicts]

filter_conflicting_stories(stories) ==
    LET conflicts == detect_preexecution_conflicts(stories)
        deferred_ids == {conflicts[i][1] : i \in DOMAIN conflicts}
    IN [filtered |-> SelectSeq(stories, LAMBDA s : s \notin deferred_ids),
        conflicts |-> conflicts]

\* ---------------------------------------------------------------- startup
InitiallyPassing == {s \in AllStories : Prd[s].passes}

\* emit_run_complete followed by return: the RunResult and the status written.
Return(status, error_type, all_passed, passed, total) ==
    /\ Room(1)
    /\ pc' = "returned"
    /\ evidence' = AppendEvent(evidence, Event("run_complete", "run", status, error_type))
    /\ result' = [status |-> status, error_type |-> error_type,
                  all_passed |-> all_passed,
                  stories_passed |-> passed, total_stories |-> total]

\* load_prd fails (lines 340-359).
StartupLoadFail ==
    /\ pc = "start"
    /\ ~cfg.load_ok
    /\ Return("failed", "fatal", FALSE, 0, 0)
    /\ UNCHANGED <<cfg, apart, in_flight, completed, failed, locked_files, permits,
                   pending_queue, queued_ids, snap_completed, snap_in_flight,
                   ready_empty, dispatch_slots, handles, batch_story_ids,
                   retry_list, retrying, cumulative_failures, tasks>>

\* graph.validate() fails (lines 371-388).
StartupCycle ==
    /\ pc = "start"
    /\ cfg.load_ok
    /\ HasCycle(Prd)
    /\ Return("failed", "fatal", FALSE, 0, Cardinality(AllStories))
    /\ UNCHANGED <<cfg, apart, in_flight, completed, failed, locked_files, permits,
                   pending_queue, queued_ids, snap_completed, snap_in_flight,
                   ready_empty, dispatch_slots, handles, batch_story_ids,
                   retry_list, retrying, cumulative_failures, tasks>>

\* Every story already passes (lines 400-425).
StartupAllPass ==
    /\ pc = "start"
    /\ cfg.load_ok
    /\ ~HasCycle(Prd)
    /\ InitiallyPassing = AllStories
    /\ completed' = InitiallyPassing
    /\ Return("success", "none", TRUE, Cardinality(AllStories), Cardinality(AllStories))
    /\ UNCHANGED <<cfg, apart, in_flight, failed, locked_files, permits,
                   pending_queue, queued_ids, snap_completed, snap_in_flight,
                   ready_empty, dispatch_slots, handles, batch_story_ids,
                   retry_list, retrying, cumulative_failures, tasks>>

\* The run goes on into the main loop without an agent command.
StartupWithoutAgent ==
    /\ pc = "start"
    /\ cfg.load_ok
    /\ ~HasCycle(Prd)
    /\ InitiallyPassing # AllStories
    /\ ~cfg.agent
    /\ completed' = InitiallyPassing
    /\ pc' = "loop"
    /\ UNCHANGED <<cfg, apart, in_flight, failed, locked_files, permits,
                   pending_queue, queued_ids, snap_completed, snap_in_flight,
                   ready_empty, dispatch_slots, handles, batch_story_ids,
                   retry_list, retrying, cumulative_failures, tasks, evidence, result>>

\* No agent command is configured or detected (lines 427-453).
StartupNoAgent ==
    /\ pc = "start"
    /\ cfg.load_ok
    /\ ~HasCycle(Prd)
    /\ InitiallyPassing # AllStories
    /\ ~cfg.agent
    /\ completed' = InitiallyPassing
    /\ Return("failed", "fatal", FALSE, Cardinality(InitiallyPassing), Cardinality(AllStories))
    /\ UNCHANGED <<cfg, apart, in_flight, failed, locked_files, permits,
                   pending_queue, queued_ids, snap_completed, snap_in_flight,
                   ready_empty, dispatch_slots, handles, batch_story_ids,
                   retry_list, retrying, cumulative_failures, tasks>>

\* Startup succeeds and run() enters the main loop (line 597).
StartupBegin ==
    /\ pc = "start"
    /\ cfg.load_ok
    /\ ~HasCycle(Prd)
    /\ InitiallyPassing # AllStories
    /\ cfg.agent
    /\ completed' = InitiallyPassing
    /\ pc' = "loop"
    /\ UNCHANGED <<cfg, apart, in_flight, failed, locked_files, permits,
                   pending_queue, queued_ids, snap_completed, snap_in_flight,
                   ready_empty, dispatch_slots, handles, batch_story_ids,
                   retry_list, retrying, cumulative_failures, tasks, evidence, result>>

\* -------------------------------------------------------------- main loop
\* State snapshot at the top of the loop (lines 598-602).
Snapshot ==
    /\ pc = "loop"
    /\ snap_completed' = completed
    /\ snap_in_flight' = in_flight
    /\ pc' = "enqueue"
    /\ UNCHANGED <<cfg, apart, in_flight, completed, failed, locked_files, permits,
                   pending_queue, queued_ids, ready_empty, dispatch_slots,
                   handles, batch_story_ids, retry_list, retrying, cumulative_failures,
                   tasks, evidence, result>>

\* The ready stories without the test against queued_ids.
ReadyIgnoringQueue ==
    filter_conflicting_stories(
        SelectSeq(GetReadyStories(snap_completed),
                  LAMBDA s : s \notin snap_in_flight)).filtered

\* The ready stories of this turn (lines 606-615).
ReadyStories ==
    filter_conflicting_stories(
        SelectSeq(GetReadyStories(snap_completed),
                  LAMBDA s : s \notin snap_in_flight /\ s \notin queued_ids)).filtered

\* The loop without its capacity test: every ready story is pushed.
EnqueueWithoutBackpressure(ready, i, acc) ==
    [acc EXCEPT !.q = @ \o SubSeq(ready, i, Len(ready)),
                !.ids = @ \cup Range(SubSeq(ready, i, Len(ready)))]

\* The for loop of lines 650-730 from ready[i] on. acc.q and acc.ids are the
\* queue and its mirror, acc.overflow the stories marked failed with
\* queue_full (in order), acc.blocked is blocked_on_queue.
RECURSIVE EnqueueLoop(_, _, _)
EnqueueLoop(ready, i, acc) ==
    IF i > Len(ready) THEN acc
    ELSE IF Len(acc.q) >= cfg.queue_capacity /\ cfg.queue_policy = "Block"
    THEN [acc EXCEPT !.blocked = TRUE]
    ELSE IF Len(acc.q) >= cfg.queue_capacity /\ cfg.queue_policy = "Reject"
    THEN EnqueueLoop(ready, i + 1, [acc EXCEPT !.overflow = Append(@, ready[i])])
    ELSE IF Len(acc.q) >= cfg.queue_capacity /\ acc.q # <<>>
    THEN \* DropOldest: pop the front, mark it failed, then push the story
         EnqueueLoop(ready, i + 1,
            [q |-> Append(Tail(acc.q), ready[i]),
             ids |-> (acc.ids \ {Head(acc.q)}) \cup {ready[i]},
             overflow |-> Append(acc.overflow, Head(acc.q)),
             blocked |-> FALSE])
    ELSE EnqueueLoop(ready, i + 1,
            [acc EXCEPT !.q = Append(@, ready[i]), !.ids = @ \cup {ready[i]}])

\* No step event is written.
AppendNoSteps(log, ids, status, error_type) == log

RECURSIVE AppendSteps(_, _, _, _)
\* The log after one failed step event per story of ids, in order.
AppendSteps(log, ids, status, error_type) ==
    IF ids = <<>> THEN log
    ELSE AppendSteps(AppendEvent(log, Event("step", Head(ids), status, error_type)),
                     Tail(ids), status, error_type)

\* Conflict filter and enqueue with backpressure (lines 604-748).
Enqueue ==
    /\ pc = "enqueue"
    /\ LET ready == ReadyStories
           acc == EnqueueLoop(ready, 1, [q |-> pending_queue, ids |-> queued_ids,
                                         overflow |-> <<>>, blocked |-> FALSE])
       IN /\ Room(Len(acc.overflow))
          /\ ready_empty' = (~acc.blocked /\ ready = <<>>)
          /\ snap_in_flight' = IF acc.blocked THEN {} ELSE snap_in_flight
          /\ pending_queue' = acc.q
          /\ queued_ids' = acc.ids
          /\ failed' = failed \cup Range(acc.overflow)
          /\ evidence' = AppendSteps(evidence, acc.overflow, "failed", "queue_full")
          /\ pc' = IF acc.blocked THEN "loop" ELSE "check"
    /\ snap_completed' = {}
    /\ UNCHANGED <<cfg, apart, in_flight, completed, locked_files, permits, dispatch_slots,
                   handles, batch_story_ids, retry_list, retrying, cumulative_failures,
                   tasks, result>>

\* Termination check (lines 750-785).
Terminate ==
    /\ pc = "check"
    /\ ready_empty /\ snap_in_flight = {}
    /\ Return(IF failed # {} THEN "failed" ELSE "success",
              IF failed # {} THEN "failed_steps" ELSE "none",
              Cardinality(completed) = Cardinality(AllStories),
              Cardinality(completed), Cardinality(AllStories))
    /\ UNCHANGED <<cfg, apart, in_flight, completed, failed, locked_files, permits,
                   pending_queue, queued_ids, snap_completed, snap_in_flight,
                   ready_empty, dispatch_slots, handles, batch_story_ids,
                   retry_list, retrying, cumulative_failures, tasks>>

available_permits == permits

\* Nothing to dispatch in this turn: the queue is empty or no permit is
\* available (lines 787-801).
NoDispatch ==
    /\ pc = "check"
    /\ ~(ready_empty /\ snap_in_flight = {})
    /\ pending_queue = <<>> \/ available_permits = 0
    /\ pc' = "loop"
    /\ snap_in_flight' = {}
    /\ ready_empty' = FALSE
    /\ UNCHANGED <<cfg, apart, in_flight, completed, failed, locked_files, permits,
                   pending_queue, queued_ids, snap_completed, dispatch_slots, handles,
                   batch_story_ids, retry_list, retrying, cumulative_failures, tasks,
                   evidence, result>>

\* Start of the dispatch loop (lines 803-805).
BeginDispatch ==
    /\ pc = "check"
    /\ ~(ready_empty /\ snap_in_flight = {})
    /\ pending_queue # <<>>
    /\ available_permits # 0
    /\ dispatch_slots' = available_permits
    /\ handles' = {}
    /\ pc' = "dispatch"
    /\ snap_in_flight' = {}
    /\ ready_empty' = FALSE
    /\ UNCHANGED <<cfg, apart, in_flight, completed, failed, locked_files, permits,
                   pending_queue, queued_ids, snap_completed, batch_story_ids,
                   retry_list, retrying, cumulative_failures, tasks, evidence, result>>

\* ------------------------------------------------------------------ tasks
\* A slot is reusable when it is free: a finished task keeps its slot only
\* while a join handle of the current batch refers to it.
Reusable(t) == tasks[t].st = "free"
Live(t) == tasks[t].st \in {"running", "returned"}

\* A semaphore whose acquire hands out a permit without taking it.
AcquireWithoutTaking(p) == p
\* Semaphore::acquire_owned takes one permit (line 817).
AcquireOwned(p) == p - 1
\* Dropping the OwnedSemaphorePermit gives it back (lines 823, 866, 1015).
DropPermit(p) == p + 1

\* One turn of the while loop of lines 807-1021: pop a story, take a permit,
\* try the file locks; spawn the task or push the story back.
DispatchOne ==
    /\ pc = "dispatch"
    /\ dispatch_slots > 0
    /\ pending_queue # <<>>
    /\ permits > 0
    /\ \E t \in Slots : Reusable(t)
    /\ LET story == Head(pending_queue)
           files == Prd[story].target_files
           t == CHOOSE x \in Slots : Reusable(x) /\ \A y \in Slots : Reusable(y) => x <= y
       IN IF ~AcquireOk(locked_files, story, files)
          THEN /\ pending_queue' = Append(Tail(pending_queue), story)
               /\ queued_ids' = (queued_ids \ {story}) \cup {story}
               /\ UNCHANGED <<in_flight, locked_files, permits, tasks, handles>>
          ELSE /\ pending_queue' = Tail(pending_queue)
               /\ queued_ids' = queued_ids \ {story}
               /\ locked_files' = AcquireLocks(locked_files, story, files)
               /\ in_flight' = in_flight \cup {story}
               /\ permits' = AcquireOwned(permits)
               /\ tasks' = [tasks EXCEPT ![t] =
                               [st |-> "running", story |-> story, success |-> FALSE,
                                transient |-> FALSE, label |-> "none", events |-> 0]]
               /\ handles' = handles \cup {t}
    /\ dispatch_slots' = dispatch_slots - 1
    /\ UNCHANGED <<cfg, apart, pc, completed, failed, snap_completed, snap_in_flight,
                   ready_empty, batch_story_ids, retry_list, retrying, cumulative_failures,
                   evidence, result>>

\* The sequences that list the elements of S once each (a Vec collected from
\* a HashSet: the order is not specified).
Orderings(S) ==
    {q \in [1..Cardinality(S) -> S] : \A i, j \in 1..Cardinality(S) : i # j => q[i] # q[j]}

\* End of the dispatch loop; with handles, read batch_story_ids from
\* in_flight (lines 1023-1028).
DispatchEnd ==
    /\ pc = "dispatch"
    /\ dispatch_slots = 0 \/ pending_queue = <<>>
    /\ IF handles = {}
       THEN /\ pc' = "loop"
            /\ UNCHANGED batch_story_ids
       ELSE /\ pc' = "wait"
            /\ batch_story_ids' \in Orderings(in_flight)
    /\ dispatch_slots' = 0
    /\ UNCHANGED <<cfg, apart, in_flight, completed, failed, locked_files, permits,
                   pending_queue, queued_ids, snap_completed, snap_in_flight,
                   ready_empty, handles, retry_list, retrying, cumulative_failures,
                   tasks, evidence, result>>

\* The error_type of the step event of an outcome.
OutcomeLabel(o) ==
    CASE o = "ok" -> "none"
      [] o = "gate" -> "quality_gates_failed"
      [] OTHER -> o

\* The executor returns and the task updates the shared state under the
\* write lock (lines 901-1002).
TaskReturn(t, o) ==
    /\ tasks[t].st = "running"
    /\ LET story == tasks[t].story IN
       /\ in_flight' = in_flight \ {story}
       /\ locked_files' = ReleaseLocks(locked_files, story)
       /\ completed' = IF o = "ok" THEN completed \cup {story} ELSE completed
       /\ failed' = IF o = "ok" THEN failed ELSE failed \cup {story}
       /\ tasks' = [tasks EXCEPT ![t].st = "returned",
                                 ![t].success = (o = "ok"),
                                 ![t].transient = (o = "transient"),
                                 ![t].label = OutcomeLabel(o)]
    /\ UNCHANGED <<cfg, apart, pc, permits, pending_queue, queued_ids, snap_completed,
                   snap_in_flight, ready_empty, dispatch_slots, handles,
                   batch_story_ids, retry_list, retrying, cumulative_failures, evidence, result>>

\* The task emits its step event and ends, which drops its permit
\* (lines 1004-1016).
TaskEmit(t) ==
    /\ tasks[t].st = "returned"
    /\ Room(1)
    /\ evidence' = AppendEvent(evidence,
                     Event("step", tasks[t].story,
                           IF tasks[t].success THEN "completed" ELSE "failed",
                           tasks[t].label))
    /\ permits' = DropPermit(permits)
    /\ tasks' = [tasks EXCEPT ![t] =
                    IF t \in handles
                    THEN [@ EXCEPT !.st = "done", !.story = NoStory, !.events = 0]
                    ELSE FreeTask]
    /\ UNCHANGED <<cfg, apart, pc, in_flight, completed, failed, locked_files,
                   pending_queue, queued_ids, snap_completed, snap_in_flight,
                   ready_empty, dispatch_slots, handles, batch_story_ids,
                   retry_list, retrying, cumulative_failures, result>>

\* ------------------------------------------------------------- batch wait
RECURSIVE ReleaseAll(_, _)
ReleaseAll(locked, ids) ==
    IF ids = <<>> THEN locked ELSE ReleaseAll(ReleaseLocks(locked, Head(ids)), Tail(ids))

\* A joined result that counts every failure, transient ones too.
CountsEveryFailure(task) == ~task.success
\* The joined results that count toward the circuit breaker (line 1043).
CountsAsFailure(task) == ~task.success /\ ~task.transient

\* join_all returned within batch_timeout: count the non-transient failures
\* of the batch and consult the circuit breaker (lines 1036-1101).
BatchJoin ==
    /\ pc = "wait"
    /\ \A t \in handles : tasks[t].st = "done"
    /\ LET batch_non_transient_failures ==
               Cardinality({t \in handles : CountsAsFailure(tasks[t])})
           total == cumulative_failures + batch_non_transient_failures
       IN /\ cumulative_failures' = total
          /\ IF total >= cfg.circuit_breaker_threshold
             THEN Return("failed", "circuit_breaker", FALSE,
                         Cardinality(completed), Cardinality(AllStories))
             ELSE /\ pc' = "reconcile"
                  /\ UNCHANGED <<evidence, result>>
    /\ tasks' = [t \in Slots |-> IF t \in handles THEN FreeTask ELSE tasks[t]]
    /\ handles' = {}
    /\ UNCHANGED <<cfg, apart, in_flight, completed, failed, locked_files, permits,
                   pending_queue, queued_ids, snap_completed, snap_in_flight,
                   ready_empty, dispatch_slots, batch_story_ids, retry_list,
                   retrying>>

\* The amount the timeout branch adds to cumulative_failures (line 1104).
TimedOutCount(batch, flying) == Len(batch)

\* batch_timeout elapsed before every task of the batch finished: the
\* stories of batch_story_ids still in in_flight are marked failed, their
\* locks released, one batch_timeout step event each (lines 1102-1197).
\* Dropping the join handles does not stop the tasks.
BatchTimeout ==
    /\ pc = "wait"
    /\ \E t \in handles : tasks[t].st # "done"
    /\ LET marked == SelectSeq(batch_story_ids, LAMBDA s : s \in in_flight)
           total == cumulative_failures + TimedOutCount(batch_story_ids, in_flight)
       IN /\ Room(Len(marked) + IF total >= cfg.circuit_breaker_threshold THEN 1 ELSE 0)
          /\ in_flight' = in_flight \ Range(marked)
          /\ locked_files' = ReleaseAll(locked_files, marked)
          /\ failed' = failed \cup Range(marked)
          /\ tasks' = [t \in Slots |->
                         IF t \in handles /\ tasks[t].st = "done" THEN FreeTask
                         ELSE IF t \in handles /\ tasks[t].st = "running"
                                 /\ tasks[t].story \in Range(marked)
                         THEN [tasks[t] EXCEPT !.events = @ + 1]
                         ELSE tasks[t]]
          /\ cumulative_failures' = total
          /\ IF total >= cfg.circuit_breaker_threshold
             THEN /\ pc' = "returned"
                  /\ evidence' = AppendEvent(
                         AppendSteps(evidence, marked, "failed", "batch_timeout"),
                         Event("run_complete", "run", "failed", "circuit_breaker"))
                  /\ result' = [status |-> "failed", error_type |-> "circuit_breaker",
                                all_passed |-> FALSE,
                                stories_passed |-> Cardinality(completed),
                                total_stories |-> Cardinality(AllStories)]
             ELSE /\ pc' = "loop"
                  /\ evidence' = AppendSteps(evidence, marked, "failed", "batch_timeout")
                  /\ UNCHANGED result
    /\ handles' = {}
    /\ batch_story_ids' = <<>>
    /\ UNCHANGED <<cfg, apart, completed, permits, pending_queue, queued_ids, snap_completed,
                   snap_in_flight, ready_empty, dispatch_slots, retry_list, retrying>>

\* ---------------------------------------------------------- reconciliation
Unknown == <<0>>
GitConflict(files) == [kind |-> "GitConflict", files |-> files]
TypeMismatch(file) == [kind |-> "TypeMismatch", files |-> <<file>>]
ImportDuplicate == [kind |-> "ImportDuplicate", files |-> <<>>]

\* What ReconciliationEngine::reconcile can report: Clean is <<>>.
Clean == <<>>
IssueLists == {<<ImportDuplicate>>, <<GitConflict(<<F1>>)>>}

\* str::contains: b occurs in a as a contiguous run.
Contains(a, b) ==
    \E i \in 1..(Len(a) + 1) :
        i + Len(b) - 1 <= Len(a) /\ SubSeq(a, i, i + Len(b) - 1) = b

\* The files collected from the issues (lines 1537-1557).
AffectedFiles(issues) ==
    UNION {IF issues[i].kind = "GitConflict" THEN Range(issues[i].files)
           ELSE IF issues[i].kind = "TypeMismatch"
           THEN Range(issues[i].files) \ {Unknown}
           ELSE {} : i \in DOMAIN issues}

\* The pushes of one story: one per target file that matches some affected
\* file (the break of line 1576 leaves only the innermost loop).
RECURSIVE StoryPushes(_, _, _)
StoryPushes(story, j, affected_files) ==
    IF j > Len(Prd[story].target_files) THEN <<>>
    ELSE (IF \E f \in affected_files :
                 \/ Contains(Prd[story].target_files[j], f)
                 \/ Contains(f, Prd[story].target_files[j])
          THEN <<story>> ELSE <<>>)
         \o StoryPushes(story, j + 1, affected_files)

RECURSIVE BatchPushes(_, _)
BatchPushes(batch, affected_files) ==
    IF batch = <<>> THEN <<>>
    ELSE StoryPushes(Head(batch), 1, affected_files)
         \o BatchPushes(Tail(batch), affected_files)

\* The function without its last fallback: an empty match stays empty.
get_affected_or_none(issues, batch) ==
    IF \E i \in DOMAIN issues : issues[i].kind = "ImportDuplicate" THEN batch
    ELSE IF AffectedFiles(issues) = {} THEN batch
    ELSE BatchPushes(batch, AffectedFiles(issues))

get_affected_stories(issues, batch) ==
    IF \E i \in DOMAIN issues : issues[i].kind = "ImportDuplicate" THEN batch
    ELSE IF AffectedFiles(issues) = {} THEN batch
    ELSE IF BatchPushes(batch, AffectedFiles(issues)) = <<>> THEN batch
    ELSE BatchPushes(batch, AffectedFiles(issues))

\* reconcile() reports Clean after the batch (lines 1257-1268).
ReconcileClean ==
    /\ pc = "reconcile"
    /\ pc' = "loop"
    /\ batch_story_ids' = <<>>
    /\ UNCHANGED <<cfg, apart, in_flight, completed, failed, locked_files, permits,
                   pending_queue, queued_ids, snap_completed, snap_in_flight,
                   ready_empty, dispatch_slots, handles, retry_list, retrying,
                   cumulative_failures, tasks, evidence, result>>

\* reconcile() reports issues (lines 1269-1311, 1509-1522, 1214-1232).
ReconcileIssues ==
    /\ pc = "reconcile"
    /\ \E issues \in IssueLists :
         LET affected == get_affected_stories(issues, batch_story_ids)
         IN IF cfg.fallback_to_sequential /\ affected # <<>>
            THEN /\ completed' = completed \ Range(affected)
                 /\ failed' = failed \ Range(affected)
                 /\ retry_list' = affected
                 /\ pc' = "retry"
                 /\ UNCHANGED <<evidence, result>>
            ELSE /\ Return("failed", "reconciliation_failed", FALSE,
                           Cardinality(completed), Cardinality(AllStories))
                 /\ UNCHANGED <<completed, failed, retry_list>>
    /\ UNCHANGED <<cfg, apart, in_flight, locked_files, permits, pending_queue,
                   queued_ids, snap_completed, snap_in_flight, ready_empty,
                   dispatch_slots, handles, batch_story_ids, retrying,
                   cumulative_failures, tasks>>

\* Sequential retry: the executor is called for the next affected story
\* (lines 1314-1371).
RetryStart ==
    /\ pc = "retry"
    /\ retrying = NoStory
    /\ retry_list # <<>>
    /\ retrying' = Head(retry_list)
    /\ retry_list' = Tail(retry_list)
    /\ UNCHANGED <<cfg, apart, pc, in_flight, completed, failed, locked_files, permits,
                   pending_queue, queued_ids, snap_completed, snap_in_flight,
                   ready_empty, dispatch_slots, handles, batch_story_ids,
                   cumulative_failures, tasks, evidence, result>>

\* Sequential retry: the executor returned; record the outcome and emit the
\* step event under the state lock (lines 1373-1472).
RetryReturn(o) ==
    /\ pc = "retry"
    /\ retrying # NoStory
    /\ Room(1)
    /\ completed' = IF o = "ok" THEN completed \cup {retrying} ELSE completed
    /\ failed' = IF o = "ok" THEN failed ELSE failed \cup {retrying}
    /\ evidence' = AppendEvent(evidence,
                     Event("step", retrying,
                           IF o = "ok" THEN "completed" ELSE "failed", OutcomeLabel(o)))
    /\ retrying' = NoStory
    /\ UNCHANGED <<cfg, apart, pc, in_flight, locked_files, permits, pending_queue,
                   queued_ids, snap_completed, snap_in_flight, ready_empty,
                   dispatch_slots, handles, batch_story_ids, retry_list,
                   cumulative_failures, tasks, result>>

\* reconcile() after the sequential retry reports Clean (lines 1476-1489).
PostRetryClean ==
    /\ pc = "retry"
    /\ retrying = NoStory
    /\ retry_list = <<>>
    /\ pc' = "loop"
    /\ batch_story_ids' = <<>>
    /\ UNCHANGED <<cfg, apart, in_flight, completed, failed, locked_files, permits,
                   pending_queue, queued_ids, snap_completed, snap_in_flight,
                   ready_empty, dispatch_slots, handles, retry_list, retrying,
                   cumulative_failures, tasks, evidence, result>>

\* reconcile() after the sequential retry still reports issues
\* (lines 1490-1507, 1214-1232).
PostRetryIssues ==
    /\ pc = "retry"
    /\ retrying = NoStory
    /\ retry_list = <<>>
    /\ Return("failed", "reconciliation_failed", FALSE,
              Cardinality(completed), Cardinality(AllStories))
    /\ UNCHANGED <<cfg, apart, in_flight, completed, failed, locked_files, permits,
                   pending_queue, queued_ids, snap_completed, snap_in_flight,
                   ready_empty, dispatch_slots, handles, batch_story_ids,
                   retry_list, retrying, cumulative_failures, tasks>>

\* ---------------------------------------------------------- specification
Supervisor ==
    \/ StartupLoadFail
    \/ StartupCycle
    \/ StartupAllPass
    \/ StartupNoAgent
    \/ StartupBegin
    \/ Snapshot
    \/ Enqueue
    \/ Terminate
    \/ NoDispatch
    \/ BeginDispatch
    \/ DispatchOne
    \/ DispatchEnd
    \/ BatchJoin
    \/ BatchTimeout
    \/ ReconcileClean
    \/ ReconcileIssues
    \/ RetryStart
    \/ \E o \in cfg.outcomes : RetryReturn(o)
    \/ PostRetryClean
    \/ PostRetryIssues

TaskStep(t) ==
    \/ \E o \in cfg.outcomes : TaskReturn(t, o)
    \/ TaskEmit(t)

Next ==
    \/ Supervisor
    \/ \E t \in Slots : TaskStep(t)

Spec == Init /\ [][Next]_vars

\* ------------------------------------------- the lock map on its own
\* ParallelExecutionState is a public type: acquire_locks and release_locks
\* are called here with any story id and any list of paths, starting from
\* the empty lock map of ParallelExecutionState::default().
Paths == {F1, F2, F12}
FileLists == UNION {[1..n -> Paths] : n \in 0..MaxFiles}

LocksInit ==
    /\ Unstarted(Config(PrdIndep, 1, 1, "Block", FALSE, 1, TRUE, TRUE, Outcomes))
    /\ locked_files = NoLocks
    /\ Idle

acquire_locks(story_id, target_files) ==
    /\ call' = [fn |-> "acquire_locks", story_id |-> story_id,
                target_files |-> target_files, before |-> locked_files,
                returned |-> AcquireOk(locked_files, story_id, target_files)]
    /\ locked_files' = AcquireLocks(locked_files, story_id, target_files)
    /\ UNCHANGED <<cfg, pc, in_flight, completed, failed, permits, pending_queue,
                   queued_ids, snap_completed, snap_in_flight, ready_empty,
                   dispatch_slots, handles, batch_story_ids, retry_list, retrying,
                   cumulative_failures, tasks, evidence, result, tracker,
                   monitor, store, collector>>

release_locks(story_id) ==
    /\ call' = [fn |-> "release_locks", story_id |-> story_id,
                target_files |-> <<>>, before |-> locked_files, returned |-> TRUE]
    /\ locked_files' = ReleaseLocks(locked_files, story_id)
    /\ UNCHANGED <<cfg, pc, in_flight, completed, failed, permits, pending_queue,
                   queued_ids, snap_completed, snap_in_flight, ready_empty,
                   dispatch_slots, handles, batch_story_ids, retry_list, retrying,
                   cumulative_failures, tasks, evidence, result, tracker,
                   monitor, store, collector>>

LocksNext ==
    \/ \E story_id \in StoryIds, target_files \in FileLists :
          acquire_locks(story_id, target_files)
    \/ \E story_id \in StoryIds : release_locks(story_id)

LocksSpec == LocksInit /\ [][LocksNext]_vars

\* ------------------------------------------- the conflict filter on its own
\* filter_conflicting_stories is called with any list of distinct stories,
\* whose priorities and target files are drawn here.
Priorities == 1..2
TargetLists == UNION {[1..n -> {F1, F2}] : n \in 0..MaxFiles}
FilterPrds ==
    {[s \in StoryIds |-> StoryNode(p[s], FALSE, f[s], {})] :
        p \in [StoryIds -> Priorities], f \in [StoryIds -> TargetLists]}
StoryLists == UNION {Orderings(S) : S \in SUBSET StoryIds}

FilterInit ==
    /\ \E prd \in FilterPrds :
          Unstarted(Config(prd, 1, 1, "Block", FALSE, 1, TRUE, TRUE, Outcomes))
    /\ locked_files = NoLocks
    /\ Idle

CallFilter(stories) ==
    /\ call' = [fn |-> "filter_conflicting_stories", stories |-> stories,
                returned |-> filter_conflicting_stories(stories)]
    /\ UNCHANGED <<cfg, pc, in_flight, completed, failed, locked_files, permits,
                   pending_queue, queued_ids, snap_completed, snap_in_flight,
                   ready_empty, dispatch_slots, handles, batch_story_ids, retry_list,
                   retrying, cumulative_failures, tasks, evidence, result, tracker,
                   monitor, store, collector>>

FilterNext == \E stories \in StoryLists : CallFilter(stories)

FilterSpec == FilterInit /\ [][FilterNext]_vars

\* ------------------------------------------- the token budget on its own
\* The variables of the scheduler, which the components below never touch.
sched == <<cfg, pc, in_flight, completed, failed, locked_files, permits,
           pending_queue, queued_ids, snap_completed, snap_in_flight, ready_empty,
           dispatch_slots, handles, batch_story_ids, retry_list, retrying,
           cumulative_failures, tasks, evidence, result>>

\* The runner the components are exercised beside: it is never started.
Beside ==
    /\ Unstarted(Config(PrdIndep, 1, 1, "Block", FALSE, 1, TRUE, TRUE, Outcomes))
    /\ locked_files = NoLocks

\* Record calls are followed while the run-wide tokens stay within
\* MaxKiloTokens thousand tokens (the counters are u64).
MaxKiloTokens == 16

\* TokenBudgetConfig. Token counts are tokens; thresholds are tenths (0.5 is
\* 5); costs are in 1/10000 cent, so that the default TokenCost (0.3 and 1.5
\* cents per 1000 tokens) is 3 and 15 per token.
BudgetConfig(story, total, cost, warn, crit, abort_story, abort_total) ==
    [story_budget |-> story, total_budget |-> total, max_cost_cents |-> cost,
     warning_threshold |-> warn, critical_threshold |-> crit,
     abort_on_story_budget_exceeded |-> abort_story,
     abort_on_total_budget_exceeded |-> abort_total]

BudgetConfigs ==
    {BudgetConfig(story, total, cost, 5, 8, abort_story, abort_total) :
        story \in {0, 10000}, total \in {0, 12000}, cost \in {0, 100000},
        abort_story \in BOOLEAN, abort_total \in BOOLEAN}
    \cup {BudgetConfig(0, 0, 0, 10, 10, FALSE, FALSE)}

\* TokenCost::calculate_cost with the default cost settings.
calculate_cost(input_tokens, output_tokens) == 3 * input_tokens + 15 * output_tokens

\* StoryBudget::new (tokens_per_iteration is left out: nothing reads it).
StoryBudget(budget_limit) ==
    [input_tokens |-> 0, output_tokens |-> 0, iterations |-> 0,
     budget_limit |-> budget_limit]

\* TokenBudget::new.
TokenBudget(config) ==
    [config |-> config, total_input_tokens |-> 0, total_output_tokens |-> 0,
     story_budgets |-> [s \in {} |-> StoryBudget(0)],
     current_story_id |-> NoStory, total_cost |-> 0]

\* The status with thresholds that must be passed, not just reached.
compute_status_strict(b, usage) ==
    IF usage[1] >= usage[2] THEN "Exceeded"
    ELSE IF 10 * usage[1] > b.config.critical_threshold * usage[2] THEN "Critical"
    ELSE IF 10 * usage[1] > b.config.warning_threshold * usage[2] THEN "Warning"
    ELSE "Ok"

\* A usage is a fraction <<numerator, denominator>>.
compute_status(b, usage) ==
    IF usage[1] >= usage[2] THEN "Exceeded"
    ELSE IF 10 * usage[1] >= b.config.critical_threshold * usage[2] THEN "Critical"
    ELSE IF 10 * usage[1] >= b.config.warning_threshold * usage[2] THEN "Warning"
    ELSE "Ok"

current_story(b) ==
    IF b.current_story_id \in DOMAIN b.story_budgets
    THEN <<b.story_budgets[b.current_story_id]>> ELSE <<>>

story_usage_percent(b) ==
    IF current_story(b) = <<>> \/ current_story(b)[1].budget_limit = 0 THEN <<0, 1>>
    ELSE <<current_story(b)[1].input_tokens + current_story(b)[1].output_tokens,
           current_story(b)[1].budget_limit>>

total_tokens(b) == b.total_input_tokens + b.total_output_tokens

total_usage_percent(b) ==
    IF b.config.total_budget = 0 THEN <<0, 1>>
    ELSE <<total_tokens(b), b.config.total_budget>>

story_status(b) == compute_status(b, story_usage_percent(b))
total_status(b) == compute_status(b, total_usage_percent(b))
cost_status(b) ==
    IF b.config.max_cost_cents <= 0 THEN "Ok"
    ELSE compute_status(b, <<b.total_cost, b.config.max_cost_cents>>)

can_continue_story(b) ==
    /\ ~(story_status(b) = "Exceeded" /\ b.config.abort_on_story_budget_exceeded)
    /\ ~(total_status(b) = "Exceeded" /\ b.config.abort_on_total_budget_exceeded)
    /\ ~(cost_status(b) = "Exceeded" /\ b.config.max_cost_cents > 0)

\* An enforcement that stops on every Exceeded status, whatever the flags.
enforce_any_exceeded(b) ==
    /\ story_status(b) # "Exceeded"
    /\ total_status(b) # "Exceeded"
    /\ cost_status(b) # "Exceeded"

\* The can_continue field of enforce().
enforce(b) ==
    /\ ~(story_status(b) = "Exceeded" /\ b.config.abort_on_story_budget_exceeded)
    /\ ~(total_status(b) = "Exceeded" /\ b.config.abort_on_total_budget_exceeded)
    /\ ~(cost_status(b) = "Exceeded" /\ b.config.max_cost_cents > 0)

can_continue(b) == enforce(b)

\* A record call that adds input and output to the run and, with
\* iterations, to the current story.
Record(b, input, output, iterations) ==
    [b EXCEPT
        !.total_input_tokens = @ + input,
        !.total_output_tokens = @ + output,
        !.story_budgets =
            IF current_story(b) = <<>> THEN @
            ELSE [@ EXCEPT ![b.current_story_id] =
                    [@ EXCEPT !.input_tokens = @ + input,
                              !.output_tokens = @ + output,
                              !.iterations = @ + iterations]],
        !.total_cost = @ + calculate_cost(input, output)]

BudgetInit ==
    /\ Beside
    /\ call = NoCall
    /\ monitor = NoMonitor
    /\ store = NoStore
    /\ collector = NoCollector
    /\ \E config \in BudgetConfigs : tracker = TokenBudget(config)

\* The tracker stays within the tokens followed after adding n.
WithinTokens(n) == total_tokens(tracker) + n <= MaxKiloTokens * 1000

start_story(story_id) ==
    /\ tracker' = [tracker EXCEPT
            !.story_budgets = [s \in DOMAIN @ \cup {story_id} |->
                                  IF s = story_id
                                  THEN StoryBudget(tracker.config.story_budget)
                                  ELSE @[s]],
            !.current_story_id = story_id]
    /\ UNCHANGED <<sched, call, monitor, store, collector>>

finish_story ==
    /\ tracker' = [tracker EXCEPT !.current_story_id = NoStory]
    /\ UNCHANGED <<sched, call, monitor, store, collector>>

record_input_tokens(tokens) ==
    /\ WithinTokens(tokens)
    /\ tracker' = Record(tracker, tokens, 0, 0)
    /\ UNCHANGED <<sched, call, monitor, store, collector>>

record_output_tokens(tokens) ==
    /\ WithinTokens(tokens)
    /\ tracker' = Record(tracker, 0, tokens, 0)
    /\ UNCHANGED <<sched, call, monitor, store, collector>>

record_iteration(input, output) ==
    /\ WithinTokens(input + output)
    /\ tracker' = Record(tracker, input, output, 1)
    /\ UNCHANGED <<sched, call, monitor, store, collector>>

BudgetNext ==
    \/ \E story_id \in {"a", "b"} : start_story(story_id)
    \/ finish_story
    \/ \E tokens \in {4000} : record_input_tokens(tokens)
    \/ \E tokens \in {4000} : record_output_tokens(tokens)
    \/ \E io \in {<<3000, 1000>>, <<2000, 1000>>} : record_iteration(io[1], io[2])

BudgetSpec == BudgetInit /\ [][BudgetNext]_vars

\* ------------------------------------------- the budget strategy on its own
MaxDefaultMax == 32
DefaultMaxes == 1..MaxDefaultMax
Statuses == {"Ok", "Warning", "Critical", "Exceeded"}

BudgetStrategy(prompt, skip, reduce, retries, small) ==
    [prompt_strategy |-> prompt, skip_optional_gates |-> skip,
     reduce_retries |-> reduce, max_retries |-> retries,
     prioritize_small_stories |-> small]

normal == BudgetStrategy("Standard", FALSE, FALSE, 0, FALSE)
conservative == BudgetStrategy("Standard", TRUE, FALSE, 0, TRUE)
minimal == BudgetStrategy("Minimal", TRUE, TRUE, 2, TRUE)
stop == BudgetStrategy("Critical", TRUE, TRUE, 0, TRUE)

from_status(status) ==
    CASE status = "Ok" -> normal
      [] status = "Warning" -> conservative
      [] status = "Critical" -> minimal
      [] status = "Exceeded" -> stop

Max(x, y) == IF x >= y THEN x ELSE y

effective_max_iterations(strategy, default_max) ==
    IF strategy.max_retries > 0 THEN strategy.max_retries
    ELSE IF strategy.reduce_retries THEN Max(default_max \div 2, 1)
    ELSE default_max

should_continue(strategy) ==
    strategy.max_retries # 0 \/ strategy.prompt_strategy # "Critical"

StrategyInit ==
    /\ Beside
    /\ Idle

CallFromStatus(status) ==
    /\ call' = [fn |-> "from_status", status |-> status,
                returned |-> from_status(status)]
    /\ UNCHANGED <<sched, tracker, monitor, store, collector>>

\* effective_max_iterations on the strategy that from_status returned.
CallEffectiveMaxIterations(default_max) ==
    /\ call # NoCall
    /\ call' = [fn |-> "effective_max_iterations", status |-> call.status,
                strategy |-> IF call.fn = "from_status" THEN call.returned
                             ELSE call.strategy,
                default_max |-> default_max,
                returned |-> effective_max_iterations(
                                 IF call.fn = "from_status" THEN call.returned
                                 ELSE call.strategy, default_max)]
    /\ UNCHANGED <<sched, tracker, monitor, store, collector>>

StrategyNext ==
    \/ \E status \in Statuses : CallFromStatus(status)
    \/ \E default_max \in DefaultMaxes : CallEffectiveMaxIterations(default_max)

StrategySpec == StrategyInit /\ [][StrategyNext]_vars

\* ------------------------------------------- the heartbeat monitor on its own
\* Time is counted in heartbeat intervals. A sleep(interval) of the monitor
\* task lasts one interval: the task wakes late by less than an interval in
\* all. age is the number of whole intervals between the last heartbeat and
\* the start of the current sleep, or -1 after a pulse during the sleep (the
\* wake then finds less than one interval elapsed).
MaxBeats == 6
MaxThreshold == 3
HeartbeatConfigs ==
    [missed_heartbeats_threshold : 1..MaxThreshold, startup_grace_period : BOOLEAN]

\* last_warning_sent = 0 stands for None: a Warning has missed > 0.
HeartbeatMonitor(config) ==
    [config |-> config, pc |-> "new", stop_flag |-> FALSE, age |-> 0,
     missed |-> 0, last_warning_sent |-> 0, log |-> <<>>]

\* A check that warns for every missed heartbeat below the threshold.
WarnsAtEveryMiss(threshold, missed, last_warning_sent) ==
    IF missed >= threshold THEN "StallDetected"
    ELSE IF missed > 0 THEN "Warning"
    ELSE "none"

\* The event a check sends, "none" when it sends nothing.
HeartbeatEvent(threshold, missed, last_warning_sent) ==
    IF missed >= threshold THEN "StallDetected"
    ELSE IF missed >= threshold - 1 /\ missed > 0
         THEN IF last_warning_sent # missed THEN "Warning" ELSE "none"
    ELSE "none"

\* last_warning_sent after the check.
WarningMemo(threshold, missed, last_warning_sent) ==
    IF missed >= threshold THEN 0
    ELSE IF missed >= threshold - 1 /\ missed > 0 THEN missed
    ELSE IF missed = 0 THEN 0
    ELSE last_warning_sent

HeartbeatInit ==
    /\ Beside
    /\ call = NoCall
    /\ tracker = NoTracker
    /\ store = NoStore
    /\ collector = NoCollector
    /\ \E config \in HeartbeatConfigs : monitor = HeartbeatMonitor(config)

others_monitor == <<sched, call, tracker, store, collector>>

\* start_monitoring, on a monitor whose task is not running; log is the
\* history of the monitoring it starts.
start_monitoring ==
    /\ monitor.pc \in {"new", "done"}
    /\ monitor' = [monitor EXCEPT
                      !.stop_flag = FALSE, !.age = 0, !.missed = 0,
                      !.last_warning_sent = 0, !.log = <<>>,
                      !.pc = IF monitor.config.startup_grace_period
                             THEN "grace" ELSE "sleep"]
    /\ UNCHANGED others_monitor

pulse ==
    /\ Len(monitor.log) < MaxBeats
    /\ monitor' = [monitor EXCEPT
                      !.age = IF monitor.pc = "sleep" THEN -1 ELSE 0,
                      !.log = Append(@, [op |-> "pulse", missed |-> 0])]
    /\ UNCHANGED others_monitor

\* HeartbeatMonitor::stop: the task ends at its next look at the flag.
stop_monitor ==
    /\ monitor.pc \notin {"new", "done"}
    /\ ~monitor.stop_flag
    /\ monitor' = [monitor EXCEPT !.stop_flag = TRUE]
    /\ UNCHANGED others_monitor

\* The grace period ends: the heartbeat timestamp is reset.
EndGrace ==
    /\ monitor.pc = "grace"
    /\ monitor' = IF monitor.stop_flag
                  THEN [monitor EXCEPT !.pc = "done"]
                  ELSE [monitor EXCEPT !.pc = "sleep", !.age = 0]
    /\ UNCHANGED others_monitor

\* The sleep ends and the task reads the elapsed time.
Wake ==
    /\ monitor.pc = "sleep"
    /\ monitor.stop_flag \/ Len(monitor.log) < MaxBeats - 1
    /\ monitor' = IF monitor.stop_flag
                  THEN [monitor EXCEPT !.pc = "done"]
                  ELSE [monitor EXCEPT
                           !.pc = "checked", !.missed = monitor.age + 1,
                           !.age = monitor.age + 1,
                           !.log = Append(@, [op |-> "read",
                                               missed |-> monitor.age + 1])]
    /\ UNCHANGED others_monitor

\* The task sends the event of the check and goes back to the top of the loop.
Emit ==
    /\ monitor.pc = "checked"
    /\ LET threshold == monitor.config.missed_heartbeats_threshold
           event == HeartbeatEvent(threshold, monitor.missed,
                                   monitor.last_warning_sent)
       IN monitor' = [monitor EXCEPT
                         !.pc = IF monitor.stop_flag THEN "done" ELSE "sleep",
                         !.last_warning_sent =
                             WarningMemo(threshold, monitor.missed, @),
                         !.missed = 0,
                         !.log = IF event = "none" THEN @
                                 ELSE Append(@, [op |-> event,
                                                 missed |-> monitor.missed])]
    /\ UNCHANGED others_monitor

HeartbeatNext ==
    \/ start_monitoring
    \/ pulse
    \/ stop_monitor
    \/ EndGrace
    \/ Wake
    \/ Emit

HeartbeatSpec == HeartbeatInit /\ [][HeartbeatNext]_vars

\* ------------------------------------------- the evidence store on its own
\* Timestamps and the clock are counted in days. A store handle appends a
\* record in the steps of append_record: the write of the JSON text, the
\* write of the line end, the read of the manifest, the write of run.json.tmp
\* and its rename to run.json.
MaxRecords == 2
MaxDays == 2
DayBits == 2
MaxDurationDays == 1
RunIds == {"r1", "r2"}
Handles == {1, 2}
RetentionDays == 0..(2 ^ DayBits - 1)

\* retention_days as i64, at the width of the model.
as_i64(n) == IF n >= 2 ^ (DayBits - 1) THEN n - 2 ^ DayBits ELSE n

\* Duration::days takes the days it can hold and panics on the others.
DurationInBounds(days) == days <= MaxDurationDays /\ -days <= MaxDurationDays

NoDir == [exists |-> FALSE, events |-> <<>>, manifest |-> <<>>, tmp |-> <<>>]
NoRecord == [run_id |-> "none", recorded_at |-> 0, n |-> 0]
NoMetadata == [created_at |-> 0, updated_at |-> 0, record_count |-> 0]
IdleHandle == [pc |-> "idle", record |-> NoRecord, metadata |-> NoMetadata,
               unlinked |-> FALSE]

\* EvidenceRunMetadata::new followed by record(timestamp).
NewMetadata(timestamp) ==
    [created_at |-> timestamp, updated_at |-> timestamp, record_count |-> 0]
\* A manifest update that counts the record and keeps the old updated_at.
RecordKeepingTime(metadata, timestamp) ==
    [metadata EXCEPT !.record_count = @ + 1]
RecordMetadata(metadata, timestamp) ==
    [metadata EXCEPT !.updated_at = timestamp, !.record_count = @ + 1]

\* returned is the ghost list, for each run, of the records whose append
\* returned Ok since the run directory was last created; serial is a ghost
\* flag: no append has overlapped another one or a deletion, and none failed.
EvidenceStore(retention_days) ==
    [config |-> "store", retention_days |-> retention_days, now |-> 0,
     runs |-> [r \in RunIds |-> NoDir],
     handle |-> [h \in Handles |-> IdleHandle],
     records |-> 0,
     returned |-> [r \in RunIds |-> <<>>],
     serial |-> TRUE]

StoreInit ==
    /\ Beside
    /\ call = NoCall
    /\ tracker = NoTracker
    /\ monitor = NoMonitor
    /\ collector = NoCollector
    /\ \E retention_days \in RetentionDays : store = EvidenceStore(retention_days)

others_store == <<sched, tracker, monitor, collector>>

Appending(h) == store.handle[h].pc # "idle"

\* append_record up to the write of the JSON text of the record. The handles
\* are alike: a call takes the first one that is free.
append_record(h, run_id, recorded_at) ==
    /\ ~Appending(h)
    /\ \A g \in Handles : g < h => Appending(g)
    /\ store.records < MaxRecords
    /\ LET record == [run_id |-> run_id, recorded_at |-> recorded_at,
                      n |-> store.records + 1]
       IN store' = [store EXCEPT
             !.records = @ + 1,
             !.runs[run_id] = [@ EXCEPT !.exists = TRUE,
                                        !.events = Append(@, record.n)],
             !.handle[h] = [IdleHandle EXCEPT !.pc = "json", !.record = record],
             !.serial = @ /\ \A g \in Handles : ~Appending(g)]
    /\ call' = NoCall
    /\ UNCHANGED others_store

\* The line end, written into the file the handle has open.
WriteNewline(h) ==
    /\ store.handle[h].pc = "json"
    /\ LET run_id == store.handle[h].record.run_id
       IN store' = [store EXCEPT
             !.runs[run_id].events =
                 IF store.handle[h].unlinked THEN @ ELSE Append(@, 0),
             !.handle[h].pc = "line"]
    /\ call' = NoCall
    /\ UNCHANGED others_store

\* load_or_create_metadata and metadata.record.
LoadMetadata(h) ==
    /\ store.handle[h].pc = "line"
    /\ LET record == store.handle[h].record
           dir == store.runs[record.run_id]
           metadata == IF dir.manifest # <<>> THEN dir.manifest[1]
                       ELSE NewMetadata(record.recorded_at)
       IN store' = [store EXCEPT
             !.handle[h].pc = "loaded",
             !.handle[h].metadata = RecordMetadata(metadata, record.recorded_at)]
    /\ call' = NoCall
    /\ UNCHANGED others_store

\* write_metadata up to the rename: run.json.tmp is created and written, or
\* the call fails because the directory is gone.
WriteTemp(h) ==
    /\ store.handle[h].pc = "loaded"
    /\ LET run_id == store.handle[h].record.run_id
       IN IF store.runs[run_id].exists
          THEN store' = [store EXCEPT
                  !.runs[run_id].tmp = <<store.handle[h].metadata>>,
                  !.handle[h].pc = "tmp"]
          ELSE store' = [store EXCEPT
                  !.handle[h] = IdleHandle, !.serial = FALSE]
    /\ call' = NoCall
    /\ UNCHANGED others_store

\* The rename of run.json.tmp to run.json and the return of append_record.
Rename(h) ==
    /\ store.handle[h].pc = "tmp"
    /\ LET record == store.handle[h].record
           dir == store.runs[record.run_id]
       IN IF dir.exists /\ dir.tmp # <<>>
          THEN store' = [store EXCEPT
                  !.runs[record.run_id].manifest = dir.tmp,
                  !.runs[record.run_id].tmp = <<>>,
                  !.handle[h] = IdleHandle,
                  !.returned[record.run_id] = Append(@, record)]
          ELSE store' = [store EXCEPT
                  !.handle[h] = IdleHandle, !.serial = FALSE]
    /\ call' = NoCall
    /\ UNCHANGED others_store

\* The store after the directories of the run ids in gone are removed.
RemoveRuns(gone) ==
    [store EXCEPT
        !.runs = [r \in RunIds |-> IF r \in gone THEN NoDir ELSE @[r]],
        !.returned = [r \in RunIds |-> IF r \in gone THEN <<>> ELSE @[r]],
        !.handle = [h \in Handles |->
                       IF @[h].record.run_id \in gone /\ @[h].pc = "json"
                       THEN [@[h] EXCEPT !.unlinked = TRUE] ELSE @[h]],
        !.serial = @ /\ \A h \in Handles : store.handle[h].record.run_id \notin gone]

\* delete_run, called while no append is under way.
delete_run(run_id) ==
    /\ store.runs[run_id].exists
    /\ \A h \in Handles : ~Appending(h)
    /\ store' = RemoveRuns({run_id})
    /\ call' = NoCall
    /\ UNCHANGED others_store

\* The runs whose manifest is older than the cutoff.
Expired(cutoff) ==
    {r \in RunIds : /\ store.runs[r].exists
                    /\ store.runs[r].manifest # <<>>
                    /\ store.runs[r].manifest[1].created_at < cutoff}

enforce_retention ==
    /\ LET days == as_i64(store.retention_days)
           gone == IF store.retention_days = 0 \/ ~DurationInBounds(days) THEN {}
                   ELSE Expired(store.now - days)
       IN /\ store' = RemoveRuns(gone)
          /\ call' = [fn |-> "enforce_retention",
                      returned |-> IF store.retention_days # 0 /\ ~DurationInBounds(days)
                                   THEN "panic" ELSE "Ok"]
    /\ UNCHANGED others_store

\* A day passes.
Tick ==
    /\ store.now < MaxDays
    /\ store' = [store EXCEPT !.now = @ + 1]
    /\ call' = NoCall
    /\ UNCHANGED others_store

StoreNext ==
    \/ \E h \in Handles, run_id \in RunIds :
          \E recorded_at \in 0..store.now : append_record(h, run_id, recorded_at)
    \/ \E h \in Handles : WriteNewline(h)
    \/ \E h \in Handles : LoadMetadata(h)
    \/ \E h \in Handles : WriteTemp(h)
    \/ \E h \in Handles : Rename(h)
    \/ \E run_id \in RunIds : delete_run(run_id)
    \/ enforce_retention
    \/ Tick

StoreSpec == StoreInit /\ [][StoreNext]_vars

\* ------------------------------------------- the run metrics on their own
MaxExpected == 2
MaxAttempts == 2
StepIds == {"s1", "s2", "s3"}

StepMetrics == [attempts |-> 0, success |-> FALSE]

RunMetricsCollector(expected_steps) ==
    [run_id |-> "run", expected_steps |-> expected_steps,
     steps |-> [s \in {} |-> StepMetrics], evidence_steps |-> {}]

\* f \cup {step_id -> value}.
WithStep(steps, step_id, value) ==
    [s \in DOMAIN steps \cup {step_id} |-> IF s = step_id THEN value ELSE steps[s]]

RECURSIVE SumOver(_, _)
SumOver(steps, ids) ==
    IF ids = {} THEN 0
    ELSE LET s == CHOOSE s \in ids : TRUE
         IN (IF steps[s].attempts >= 1 THEN steps[s].attempts - 1 ELSE 0)
               + SumOver(steps, ids \ {s})

\* A percentage is a fraction <<numerator, denominator>>.
Min100(percent) ==
    IF percent[1] >= 100 * percent[2] THEN <<100, 1>> ELSE percent

\* A completeness that is not capped at 100.
completeness_uncapped(state) ==
    IF state.expected_steps = 0 THEN <<100, 1>>
    ELSE <<100 * Cardinality(state.evidence_steps), state.expected_steps>>

completeness_percent(state) ==
    IF state.expected_steps = 0 THEN <<100, 1>>
    ELSE Min100(<<100 * Cardinality(state.evidence_steps), state.expected_steps>>)

\* The snapshot that finish() builds.
RunMetrics(state) ==
    LET steps_attempted == Cardinality(DOMAIN state.steps)
        steps_completed == Cardinality({s \in DOMAIN state.steps : state.steps[s].success})
    IN [run_id |-> state.run_id,
        expected_steps |-> state.expected_steps,
        steps_attempted |-> steps_attempted,
        steps_completed |-> steps_completed,
        failures |-> steps_attempted - steps_completed,
        retries |-> SumOver(state.steps, DOMAIN state.steps),
        completeness_percent |-> completeness_percent(state)]

MetricsInit ==
    /\ Beside
    /\ call = NoCall
    /\ tracker = NoTracker
    /\ monitor = NoMonitor
    /\ store = NoStore
    /\ \E expected_steps \in 0..MaxExpected :
          collector = RunMetricsCollector(expected_steps)

others_collector == <<sched, tracker, monitor, store>>

set_expected_steps(expected_steps) ==
    /\ collector' = [collector EXCEPT !.expected_steps = expected_steps]
    /\ call' = NoCall
    /\ UNCHANGED others_collector

start_step(step_id) ==
    /\ collector' = [collector EXCEPT
                        !.steps = IF step_id \in DOMAIN @ THEN @
                                  ELSE WithStep(@, step_id, StepMetrics)]
    /\ call' = NoCall
    /\ UNCHANGED others_collector

record_evidence_step(step_id) ==
    /\ collector' = [collector EXCEPT !.evidence_steps = @ \cup {step_id}]
    /\ call' = NoCall
    /\ UNCHANGED others_collector

complete_step(step_id, success, attempts) ==
    /\ collector' = [collector EXCEPT
                        !.steps = WithStep(@, step_id, [attempts |-> attempts,
                                                        success |-> success])]
    /\ call' = NoCall
    /\ UNCHANGED others_collector

finish ==
    /\ call' = [fn |-> "finish", returned |-> RunMetrics(collector)]
    /\ UNCHANGED <<collector, others_collector>>

MetricsNext ==
    \/ \E expected_steps \in 0..MaxExpected : set_expected_steps(expected_steps)
    \/ \E step_id \in StepIds : start_step(step_id)
    \/ \E step_id \in StepIds : record_evidence_step(step_id)
    \/ \E step_id \in StepIds, success \in BOOLEAN, attempts \in 1..MaxAttempts :
          complete_step(step_id, success, attempts)
    \/ finish

MetricsSpec == MetricsInit /\ [][MetricsNext]_vars

\* ------------------------------------- get_affected_stories on its own
\* get_affected_stories is called with the issues of one reconciliation and
\* the ids of one batch; the target files of the batch stories are drawn here.
MaxIssues == 2
AffectedTargetLists == UNION {[1..n -> {F1, F2, F12}] : n \in 0..MaxFiles}
AffectedPrds ==
    {[s \in {"a", "b"} |-> StoryNode(1, FALSE, f[s], {})] :
        f \in [{"a", "b"} -> AffectedTargetLists]}
IssueKinds ==
    {ImportDuplicate, GitConflict(<<F1>>), GitConflict(<<F2, F12>>),
     TypeMismatch(Unknown)}
IssueInputs == UNION {[1..n -> IssueKinds] : n \in 1..MaxIssues}
BatchInputs == UNION {Orderings(S) : S \in SUBSET {"a", "b"}}

AffectedInit ==
    /\ \E prd \in AffectedPrds :
          Unstarted(Config(prd, 1, 1, "Block", TRUE, 1, TRUE, TRUE, Outcomes))
    /\ locked_files = NoLocks
    /\ Idle

\* One call is followed from each input.
CallAffected(issues, batch) ==
    /\ call = NoCall
    /\ call' = [fn |-> "get_affected_stories", issues |-> issues, batch |-> batch,
                returned |-> get_affected_stories(issues, batch)]
    /\ UNCHANGED <<cfg, pc, in_flight, completed, failed, locked_files, permits,
                   pending_queue, queued_ids, snap_completed, snap_in_flight,
                   ready_empty, dispatch_slots, handles, batch_story_ids, retry_list,
                   retrying, cumulative_failures, tasks, evidence, result, tracker,
                   monitor, store, collector>>

AffectedNext ==
    \E issues \in IssueInputs, batch \in BatchInputs : CallAffected(issues, batch)

AffectedSpec == AffectedInit /\ [][AffectedNext]_vars

\* ------------------------------------------- the quality gates on their own
\* run_all_gates_with_progress runs the five gates one after the other and
\* reports to the callback; the call record holds the position in the
\* function, the updates the callback has received and the results pushed.
GateOrder == <<"coverage", "tests", "lint", "format", "security_audit">>
\* For each gate, whether the profile asks for it (coverage_threshold > 0,
\* unit_tests, lint_check, format_check, cargo_audit).
Profiles == [DOMAIN GateOrder -> BOOLEAN]

GateProgressUpdate(gate_name, state) == [gate_name |-> gate_name, state |-> state]
GateResult(gate_name, passed) == [gate_name |-> gate_name, passed |-> passed]

\* The completion is reported as Passed whatever the result.
CompletionAlwaysPassed(gate_result) ==
    GateProgressUpdate(gate_result.gate_name, "Passed")

\* The completion update for a result.
CompletionUpdate(gate_result) ==
    GateProgressUpdate(gate_result.gate_name,
                       IF gate_result.passed THEN "Passed" ELSE "Failed")

GatesInit ==
    /\ Beside
    /\ tracker = NoTracker /\ monitor = NoMonitor
    /\ store = NoStore /\ collector = NoCollector
    /\ \E profile \in Profiles :
          call = [fn |-> "run_all_gates_with_progress", profile |-> profile,
                  gate |-> 1, pc |-> "start", result |-> GateResult("none", FALSE),
                  updates |-> <<>>, results |-> <<>>]

\* callback(GateProgressUpdate::running(gate)).
CallbackRunning ==
    /\ call.pc = "start"
    /\ call' = [call EXCEPT !.pc = "check",
                            !.updates = Append(@, GateProgressUpdate(GateOrder[call.gate],
                                                                     "Running"))]
    /\ UNCHANGED <<sched, tracker, monitor, store, collector>>

\* The check of the gate returns: a gate the profile does not ask for is
\* skipped, which counts as passed; otherwise the tool decides.
CheckGate(passed) ==
    /\ call.pc = "check"
    /\ ~call.profile[call.gate] => passed
    /\ call' = [call EXCEPT !.pc = "report",
                            !.result = GateResult(GateOrder[call.gate], passed)]
    /\ UNCHANGED <<sched, tracker, monitor, store, collector>>

\* callback(passed or failed), results.push(result), then the next gate or
\* the return.
CallbackDone ==
    /\ call.pc = "report"
    /\ call' = [call EXCEPT !.updates = Append(@, CompletionUpdate(call.result)),
                            !.results = Append(@, call.result),
                            !.gate = IF @ < Len(GateOrder) THEN @ + 1 ELSE @,
                            !.pc = IF call.gate < Len(GateOrder) THEN "start"
                                   ELSE "returned"]
    /\ UNCHANGED <<sched, tracker, monitor, store, collector>>

GatesNext ==
    \/ CallbackRunning
    \/ \E passed \in BOOLEAN : CheckGate(passed)
    \/ CallbackDone

GatesSpec == GatesInit /\ [][GatesNext]_vars

\* The function runs to its end: each step is taken once it can be.
FairGatesSpec == GatesSpec /\ WF_vars(GatesNext)

\* A run under weak fairness: the supervisor keeps taking steps while it has
\* one, and every spawned task runs to its end (the executor call returns
\* and the tokio runtime keeps polling the task).
FairSpec ==
    /\ Spec
    /\ WF_vars(Supervisor)
    /\ \A t \in Slots : WF_vars(TaskStep(t))

\* ------------------------------------------------------------------ claims
\* The tasks spawned and not yet ended.
LiveTasks == {t \in Slots : Live(t)}
\* The tasks of a timed-out batch that are still alive.
Zombies == {t \in LiveTasks : t \notin handles}

\* C1: at every moment the number of spawned tasks that have not yet ended,
\* the tasks of timed-out batches included, is at most max_concurrency.
C1_ConcurrencyCap == Cardinality(LiveTasks) <= cfg.max_concurrency

\* C1 case: the cap is reached with a task of a timed-out batch among the
\* live ones while stories wait in the queue and no permit is left.
C1_Witness ==
    /\ Cardinality(LiveTasks) = cfg.max_concurrency
    /\ Zombies # {}
    /\ pending_queue # <<>>
    /\ permits = 0
    /\ pc = "check"

\* C2: no two stories whose target_files share a path execute at the same
\* time, also after a batch timeout has released the locks of one of them.
C2_FileExclusivity ==
    \A t, u \in Slots :
        (/\ tasks[t].st = "running"
         /\ tasks[u].st = "running"
         /\ tasks[t].story # tasks[u].story)
        => ~Overlap(tasks[t].story, tasks[u].story)

\* C3: run() returns through the termination check only when the pending
\* queue is empty.
C3_TerminateOnlyWithEmptyQueue == [][Terminate => pending_queue = <<>>]_vars

\* C4: when run() ends with status success, every story is in completed and
\* the result has all_passed = true and stories_passed = total_stories.
C4_SuccessMeansAllPassed ==
    (pc = "returned" /\ result.status = "success")
    => /\ completed = AllStories
       /\ result.all_passed
       /\ result.stories_passed = result.total_stories

\* C6: no story id is in in_flight and in completed at the same time.
C6_InFlightNotCompleted == in_flight \cap completed = {}

\* C7: no story id is in in_flight and in failed at the same time.
C7_InFlightNotFailed == in_flight \cap failed = {}

\* C5: with an acyclic graph and executor calls that all return, run()
\* eventually returns. Runs are followed only while the log has room, so a
\* run is also let off once its log has grown to where some step of the
\* supervisor (a timeout marking max_concurrency stories, then run_complete)
\* may lack room.
C5_RunReturns == <>(pc = "returned" \/ ~Room(cfg.max_concurrency + 1))

\* C8: a dispatch gets at most one terminal step event: when a task ends by
\* emitting its step event, no terminal event was written for its attempt
\* before.
C8_OneTerminalEvent ==
    [][\A t \in Slots :
          (tasks[t].st = "returned" /\ tasks'[t].st # "returned")
          => tasks[t].events = 0]_vars

\* The terminal step events of non-transient failures in the log, plus the
\* non-transient failures that tasks have recorded in the shared state and
\* not yet logged.
NonTransientRecorded ==
    Cardinality({i \in DOMAIN evidence :
                    /\ evidence[i].type = "step"
                    /\ evidence[i].status = "failed"
                    /\ evidence[i].error_type # "transient"})
    + Cardinality({t \in Slots : /\ tasks[t].st = "returned"
                                 /\ ~tasks[t].success
                                 /\ ~tasks[t].transient})

\* C9 (only-if part): when run() returns with error_type circuit_breaker, the
\* non-transient story failures recorded so far are at least
\* circuit_breaker_threshold.
C9_CircuitBreakerOnlyAtThreshold ==
    [][(pc # "returned" /\ pc' = "returned" /\ result'.error_type = "circuit_breaker")
       => NonTransientRecorded' >= cfg.circuit_breaker_threshold]_vars

\* C10: at a batch timeout the stories marked failed, and the amount added
\* to cumulative_failures, are exactly the batch stories still in in_flight.
C10_TimeoutCountsInFlightOnly ==
    [][BatchTimeout =>
         /\ failed' = failed \cup (Range(batch_story_ids) \cap in_flight)
         /\ cumulative_failures' - cumulative_failures
              = Cardinality(Range(batch_story_ids) \cap in_flight)]_vars

\* C11: when a batch times out its unfinished tasks are cancelled, so no
\* task is alive (executing, holding a permit) outside the batch that the
\* supervisor is dispatching or waiting for.
C11_TimedOutTasksCancelled == \A t \in Slots : Live(t) => t \in handles

\* The error_type labels of the outcomes that are non-transient failures.
NonTransientLabels == {"quality_gates_failed", "usage_limit", "fatal", "timeout"}

LockedBy(locked, path, story) == path \in DOMAIN locked /\ locked[path] = story
\* The paths locked by another story than s keep their owner over the call.
OthersKeepOwner ==
    \A p \in DOMAIN call.before :
        call.before[p] # call.story_id => LockedBy(locked_files, p, call.before[p])

\* C13 as stated: acquire_locks(s, F) returns true with every path of F
\* locked by s, or false with no path of F locked by s afterwards; a path
\* locked by another story never changes owner.
C13_AcquireAllOrNoneHeld ==
    call.fn = "acquire_locks" =>
        /\ \/ /\ call.returned
              /\ \A p \in Range(call.target_files) :
                    LockedBy(locked_files, p, call.story_id)
           \/ /\ ~call.returned
              /\ \A p \in Range(call.target_files) :
                    ~LockedBy(locked_files, p, call.story_id)
        /\ OthersKeepOwner

\* C13 amended: acquire_locks(s, F) returns true with every path of F
\* locked by s, or false with the lock map unchanged (s keeps the paths of F
\* it held before the call and gains none); a path locked by another story
\* never changes owner.
C13_AcquireAllOrNothing ==
    call.fn = "acquire_locks" =>
        /\ call.returned =>
              \A p \in Range(call.target_files) : LockedBy(locked_files, p, call.story_id)
        /\ ~call.returned => locked_files = call.before
        /\ OthersKeepOwner

\* C13 case: a call fails on a path of another story while the caller
\* already holds another path of F.
C13_Witness ==
    /\ call.fn = "acquire_locks"
    /\ ~call.returned
    /\ \E p \in Range(call.target_files) : LockedBy(call.before, p, call.story_id)

\* C14: a path is locked by story s only while a task of s is executing,
\* and every executing story holds the lock on each of its target files
\* until its own task finishes.
C14_LocksHeldWhileExecuting ==
    /\ \A p \in DOMAIN locked_files :
          \E t \in Slots : tasks[t].st = "running" /\ tasks[t].story = locked_files[p]
    /\ \A t \in Slots :
          tasks[t].st = "running" =>
             \A p \in Range(Prd[tasks[t].story].target_files) :
                LockedBy(locked_files, p, tasks[t].story)

\* C15: at every point of the main loop the pending queue holds at most
\* queue_capacity stories, under Block, Reject and DropOldest, the re-push of
\* a story whose lock acquisition failed included.
C15_QueueWithinCapacity == Len(pending_queue) <= cfg.queue_capacity

\* A ready story has just met a full queue and the queue is at its capacity.
C15_Witness ==
    /\ pc = "check"
    /\ Len(pending_queue) = cfg.queue_capacity
    /\ evidence # <<>>
    /\ evidence[Len(evidence)].error_type = "queue_full"

\* The number of ready stories that meet a full queue in one enqueue loop.
QueueFullMeets(ready) ==
    IF Len(pending_queue) + Len(ready) > cfg.queue_capacity
    THEN Len(pending_queue) + Len(ready) - cfg.queue_capacity
    ELSE 0

\* C16: each time a ready story meets a full queue under Reject or
\* DropOldest, exactly one story is marked failed and gets exactly one failed
\* step event tagged queue_full. Under Reject it is the incoming story, which
\* is not enqueued and leaves the queue unchanged; under DropOldest it is the
\* story at the front of the queue, which is removed, and the incoming story
\* is appended at the tail.
C16_QueueFullFailsExactlyOne ==
    [][Enqueue /\ cfg.queue_policy \in {"Reject", "DropOldest"} =>
        LET ready == ReadyStories
            all == pending_queue \o ready
            d == QueueFullMeets(ready)
            victims == IF cfg.queue_policy = "Reject"
                       THEN SubSeq(all, Len(all) - d + 1, Len(all))
                       ELSE SubSeq(all, 1, d)
            kept == IF cfg.queue_policy = "Reject"
                    THEN SubSeq(all, 1, Len(all) - d)
                    ELSE SubSeq(all, d + 1, Len(all))
        IN /\ pending_queue' = kept
           /\ failed' = failed \cup Range(victims)
           /\ Len(evidence') = Len(evidence) + d
           /\ SubSeq(evidence', 1, Len(evidence)) = evidence
           /\ \A i \in 1..d :
                 evidence'[Len(evidence) + i] = Event("step", victims[i], "failed", "queue_full")
           /\ cfg.queue_policy = "Reject" => Range(victims) \cap queued_ids' = {}
    ]_vars

\* Under DropOldest the story at the front was dropped and marked failed,
\* and the incoming story sits at the tail of the queue.
C16_Witness ==
    /\ cfg.queue_policy = "DropOldest"
    /\ pc = "check"
    /\ evidence # <<>>
    /\ evidence[Len(evidence)].error_type = "queue_full"
    /\ evidence[Len(evidence)].step_id \in failed \ Range(pending_queue)
    /\ Len(pending_queue) = cfg.queue_capacity

\* x runs before y: smaller priority number, then smaller id.
RunsFirst(x, y) ==
    \/ Prd[x].priority < Prd[y].priority
    \/ Prd[x].priority = Prd[y].priority /\ IdRank[x] < IdRank[y]

\* C17: for every pair of ready stories with a common target file,
\* filter_conflicting_stories removes the one with the larger priority number
\* (on equal priority, the one with the larger id); the stories it returns
\* have pairwise disjoint target files, and the highest-priority ready story
\* is always kept.
C17_FilterRemovesLowerPriority ==
    call.fn = "filter_conflicting_stories" =>
        LET given == Range(call.stories)
            kept == Range(call.returned.filtered)
        IN /\ \A x, y \in given :
                 x # y /\ Overlap(x, y) /\ RunsFirst(x, y) => y \notin kept
           /\ \A x, y \in kept : x # y => ~Overlap(x, y)
           /\ \A x \in given : (\A y \in given \ {x} : RunsFirst(x, y)) => x \in kept

\* b overlaps a and c, a and c are disjoint: b is removed because of a, and
\* c because of b although b does not run.
C17_Witness ==
    /\ call.fn = "filter_conflicting_stories"
    /\ Range(call.stories) = StoryIds
    /\ RunsFirst("a", "b") /\ RunsFirst("b", "c")
    /\ Overlap("a", "b") /\ Overlap("b", "c") /\ ~Overlap("a", "c")
    /\ call.returned.filtered = <<"a">>

\* The ready stories the conflict filter removes in this turn.
DeferredNow ==
    IF pc = "enqueue"
    THEN Range(SelectSeq(GetReadyStories(snap_completed),
                         LAMBDA s : s \notin snap_in_flight /\ s \notin queued_ids))
            \ Range(ReadyStories)
    ELSE {}
\* The strictly higher-priority stories whose target files overlap those of s.
StrictBlockers(s) ==
    IF s \in AllStories
    THEN {x \in AllStories \ {s} : Overlap(x, s) /\ Prd[x].priority < Prd[s].priority}
    ELSE {}
\* A task of s has been spawned and runs.
Dispatched(s) == \E t \in handles : tasks[t].story = s /\ tasks[t].st = "running"

\* The run cannot be followed further: a step of the supervisor may need more
\* room in the evidence log than is left (the timeout branch writes up to
\* max_concurrency + 1 records, the enqueue loop one per rejected story).
LogFull ==
    /\ pc # "returned"
    /\ ~Room(CASE pc = "wait" -> cfg.max_concurrency + 1
               [] pc = "enqueue" ->
                    IF cfg.queue_policy = "Block" THEN 0 ELSE Cardinality(AllStories)
               [] OTHER -> 1)

\* C18: a ready story that the conflict filter defers is eventually
\* dispatched once every strictly higher-priority story whose target files
\* overlap its own has completed. The claim is read in its favour: a run
\* that returns ends the obligation.
C18_DeferredEventuallyDispatched ==
    \A s \in StoryIds :
        [](s \in DeferredNow =>
            [](StrictBlockers(s) \subseteq completed =>
                <>(Dispatched(s) \/ pc = "returned" \/ LogFull)))

\* run() has not gone past its startup, no task was spawned, and once it has
\* returned the result is a failure and the log is run_start followed by one
\* run_complete with status failed and error_type fatal.
FatalStartup ==
    /\ pc \in {"start", "returned"}
    /\ \A t \in Slots : tasks[t] = FreeTask
    /\ in_flight = {} /\ handles = {} /\ pending_queue = <<>>
    /\ pc = "returned" =>
          /\ result.status = "failed" /\ result.error_type = "fatal"
          /\ ~result.all_passed
          /\ evidence = <<Event("run_start", "run", "none", "none"),
                          Event("run_complete", "run", "failed", "fatal")>>

\* C19 as stated: if loading the story set fails, the dependency graph has a
\* cycle, or no agent command is configured, run() returns a failed result
\* without dispatching any story, and the evidence log holds run_start
\* followed by exactly one run_complete with status failed and error_type
\* fatal, and no step event.
C19_StartupFailureIsFatal ==
    (~cfg.load_ok \/ HasCycle(Prd) \/ ~cfg.agent) => FatalStartup

\* C19 amended: the missing agent command is fatal only when some story does
\* not pass yet; a story set that already passes returns success first.
C19_StartupFailureIsFatalUnlessAllPass ==
    (~cfg.load_ok \/ HasCycle(Prd) \/ (~cfg.agent /\ InitiallyPassing # AllStories))
        => FatalStartup

\* run() has returned for want of an agent command.
C19_Witness ==
    /\ pc = "returned"
    /\ cfg.load_ok /\ ~HasCycle(Prd) /\ ~cfg.agent
    /\ InitiallyPassing # AllStories
    /\ result.error_type = "fatal"

\* C20: when post-batch reconciliation reports issues: with
\* fallback_to_sequential off the run returns at once with error_type
\* reconciliation_failed and no story is re-executed; with it on, every
\* affected story is removed from completed and failed and re-executed one at
\* a time, reconciliation is run again, and the run fails with
\* reconciliation_failed if and only if issues still remain after that retry.
C20_ReconciliationFallback ==
    [][/\ ReconcileIssues /\ ~cfg.fallback_to_sequential =>
            /\ pc' = "returned"
            /\ result'.error_type = "reconciliation_failed"
            /\ retry_list' = <<>> /\ retrying' = NoStory
            /\ completed' = completed /\ failed' = failed
            /\ Len(evidence') = Len(evidence) + 1
       /\ ReconcileIssues /\ cfg.fallback_to_sequential =>
            /\ pc' = "retry"
            /\ Range(retry_list') \cap (completed' \cup failed') = {}
            /\ completed \ completed' \subseteq Range(retry_list')
            /\ failed \ failed' \subseteq Range(retry_list')
       /\ RetryStart => retrying' = Head(retry_list) /\ pc' = "retry"
       /\ PostRetryClean => pc' = "loop"
       /\ PostRetryIssues =>
            pc' = "returned" /\ result'.error_type = "reconciliation_failed"
       /\ ( /\ cfg.fallback_to_sequential
            /\ pc # "returned" /\ pc' = "returned"
            /\ result'.error_type = "reconciliation_failed" ) => PostRetryIssues
    ]_vars

\* The tracker of the enforcement example: story cap 10000, warning 0.5,
\* critical 0.8, abort-on-story set, after k record_iteration calls that
\* brought the current story to k * input and k * output tokens.
AfterIterations(k, input, output) ==
    /\ tracker # NoTracker
    /\ tracker.config.story_budget = 10000
    /\ tracker.config.warning_threshold = 5
    /\ tracker.config.critical_threshold = 8
    /\ tracker.config.abort_on_story_budget_exceeded
    /\ current_story(tracker) # <<>>
    /\ current_story(tracker)[1].iterations = k
    /\ current_story(tracker)[1].input_tokens = k * input
    /\ current_story(tracker)[1].output_tokens = k * output

\* C21 as stated: four successive record_iteration(3000,1000) calls on the
\* current story give the story statuses Ok, Warning, Critical, Exceeded in
\* that order, and can_continue_story is false after the fourth call.
C21_StatusesOfThreeThousand ==
    \A k \in 1..4 :
        AfterIterations(k, 3000, 1000) =>
            /\ story_status(tracker) = <<"Ok", "Warning", "Critical", "Exceeded">>[k]
            /\ k = 4 => ~can_continue_story(tracker)

\* C21 amended: the statuses Ok, Warning, Critical, Exceeded are those of four
\* record_iteration(2000,1000) calls; four record_iteration(3000,1000) calls
\* give Ok, Critical, Exceeded, Exceeded. can_continue_story is false after
\* the fourth call in both cases.
C21_StatusesOfTwoThousand ==
    \A k \in 1..4 :
        /\ AfterIterations(k, 2000, 1000) =>
            /\ story_status(tracker) = <<"Ok", "Warning", "Critical", "Exceeded">>[k]
            /\ k = 4 => ~can_continue_story(tracker)
        /\ AfterIterations(k, 3000, 1000) =>
            /\ story_status(tracker) = <<"Ok", "Critical", "Exceeded", "Exceeded">>[k]
            /\ k = 4 => ~can_continue_story(tracker)

\* The fourth record_iteration(2000,1000) call has been made.
C21_Witness ==
    /\ AfterIterations(4, 2000, 1000)
    /\ story_status(tracker) = "Exceeded"

\* A dimension is over its cap: the cap is positive and the use has reached
\* it. The story dimension is that of the current story.
StoryOver ==
    /\ current_story(tracker) # <<>>
    /\ tracker.config.story_budget > 0
    /\ current_story(tracker)[1].input_tokens + current_story(tracker)[1].output_tokens
           >= tracker.config.story_budget
TotalOver ==
    /\ tracker.config.total_budget > 0
    /\ tracker.total_input_tokens + tracker.total_output_tokens
           >= tracker.config.total_budget
CostOver ==
    /\ tracker.config.max_cost_cents > 0
    /\ tracker.total_cost >= tracker.config.max_cost_cents

\* C22: can_continue() is false exactly when the story dimension is Exceeded
\* with abort-on-story set, or the total dimension is Exceeded with
\* abort-on-total set, or the cost dimension is Exceeded with a cost cap above
\* zero (the cost dimension has no flag of its own); a dimension whose cap is
\* 0 is never Exceeded and never makes it false.
C22_CanContinueFalseIffAbortingExceeded ==
    /\ can_continue(tracker) =
          ~ \/ StoryOver /\ tracker.config.abort_on_story_budget_exceeded
            \/ TotalOver /\ tracker.config.abort_on_total_budget_exceeded
            \/ CostOver
    /\ story_status(tracker) = "Exceeded" <=> StoryOver
    /\ total_status(tracker) = "Exceeded" <=> TotalOver
    /\ cost_status(tracker) = "Exceeded" <=> CostOver

\* The story is over its cap with its flag off, which stops nothing, and the
\* cost has reached its cap, which does.
C22_Witness ==
    /\ StoryOver
    /\ ~tracker.config.abort_on_story_budget_exceeded
    /\ ~tracker.config.abort_on_total_budget_exceeded
    /\ CostOver
    /\ ~can_continue(tracker)

\* No counter of the tracker is lower after a step than before it.
NoCounterDecreases ==
    /\ tracker'.total_input_tokens >= tracker.total_input_tokens
    /\ tracker'.total_output_tokens >= tracker.total_output_tokens
    /\ tracker'.total_cost >= tracker.total_cost
    /\ \A id \in DOMAIN tracker.story_budgets :
        /\ id \in DOMAIN tracker'.story_budgets
        /\ tracker'.story_budgets[id].input_tokens >= tracker.story_budgets[id].input_tokens
        /\ tracker'.story_budgets[id].output_tokens >= tracker.story_budgets[id].output_tokens

\* C23: over any sequence of start_story, finish_story and record calls, the
\* run-wide input and output counters, the cost accumulator and the token
\* counters kept for each story id never decrease.
C23_CountersNeverDecrease == [][NoCounterDecreases]_vars

\* The retry budget the strategy table gives a status.
TableRetryBudget(status, default_max) ==
    CASE status \in {"Ok", "Warning"} -> default_max
      [] status = "Critical" -> Max(default_max \div 2, 1)
      [] status = "Exceeded" -> 0

\* C24: from_status maps Ok to Standard / gates kept, Warning to Standard /
\* gates skipped, Critical to Minimal / gates skipped, Exceeded to the
\* Critical prompt / gates skipped, and effective_max_iterations(default_max)
\* on the strategy of a status is default_max for Ok and Warning, half of
\* default_max but at least 1 for Critical, and zero for Exceeded.
C24_StrategyTable ==
    /\ call # NoCall /\ call.fn = "from_status" =>
          /\ call.returned.prompt_strategy =
                (CASE call.status \in {"Ok", "Warning"} -> "Standard"
                   [] call.status = "Critical" -> "Minimal"
                   [] call.status = "Exceeded" -> "Critical")
          /\ call.returned.skip_optional_gates = (call.status # "Ok")
    /\ call # NoCall /\ call.fn = "effective_max_iterations" =>
          call.returned = TableRetryBudget(call.status, call.default_max)

\* The event that the check of log entry i sent: the entry after it, pulses
\* aside, when that is not the next check.
EventOfCheck(i) ==
    LET later == {j \in (i + 1)..Len(monitor.log) : monitor.log[j].op # "pulse"}
        next == CHOOSE j \in later : \A k \in later : j <= k
    IN IF later = {} THEN "none"
       ELSE IF monitor.log[next].op = "read" THEN "none"
       ELSE monitor.log[next].op

\* Log entry i is a check that has sent what it sends.
CheckDone(i) ==
    /\ monitor.log[i].op = "read"
    /\ \/ monitor.pc # "checked"
       \/ \E j \in (i + 1)..Len(monitor.log) : monitor.log[j].op = "read"

\* Log entry i is the first check since a pulse that finds level missed
\* heartbeats.
FirstSincePulse(i, level) ==
    /\ monitor.log[i].op = "read"
    /\ monitor.log[i].missed = level
    /\ \E j \in 1..(i - 1) :
        /\ monitor.log[j].op = "pulse"
        /\ \A k \in (j + 1)..(i - 1) :
              ~(monitor.log[k].op = "read" /\ monitor.log[k].missed = level)

\* C25: a pulse clears the warning-level memo: once pulses have stopped again,
\* the first check that finds missed = threshold - 1 (above zero) sends a
\* Warning, also when a Warning for that count was sent before the pulse.
C25_WarningAgainAfterPulse ==
    monitor # NoMonitor =>
        \A i \in DOMAIN monitor.log :
            /\ monitor.config.missed_heartbeats_threshold >= 2
            /\ FirstSincePulse(i, monitor.config.missed_heartbeats_threshold - 1)
            /\ CheckDone(i)
            => EventOfCheck(i) = "Warning"

\* The entries of the log with the given op.
Entries(op) == {i \in DOMAIN monitor.log : monitor.log[i].op = op}

RECURSIVE LinesOf(_)
LinesOf(records) ==
    IF records = <<>> THEN <<>>
    ELSE <<records[1].n, 0>> \o LinesOf(Tail(records))

\* The number of line ends in a text.
LineCount(events) == Cardinality({i \in DOMAIN events : events[i] = 0})

\* Every append so far ran alone and returned Ok, and none is under way.
OneAtATime ==
    /\ store # NoStore
    /\ store.serial
    /\ \A h \in Handles : ~Appending(h)

\* C27: after successful append_record calls for a run, made one at a time,
\* events.jsonl holds the appended records in order, a line each, and the
\* manifest has record_count = the number of lines, created_at = the
\* timestamp of the first record and updated_at = that of the last.
C27_SequentialAppends ==
    OneAtATime =>
        \A r \in RunIds :
            store.returned[r] # <<>> =>
                LET records == store.returned[r]
                    dir == store.runs[r]
                IN /\ dir.exists
                   /\ dir.events = LinesOf(records)
                   /\ dir.manifest # <<>>
                   /\ dir.manifest[1].record_count = LineCount(dir.events)
                   /\ dir.manifest[1].record_count = Len(records)
                   /\ dir.manifest[1].created_at = records[1].recorded_at
                   /\ dir.manifest[1].updated_at = records[Len(records)].recorded_at

\* Two records were appended to run r1 one after the other, the second with
\* the older timestamp.
C27_Witness ==
    /\ OneAtATime
    /\ Len(store.returned["r1"]) = 2
    /\ store.returned["r1"][2].recorded_at < store.returned["r1"][1].recorded_at

\* A text made of whole lines: the JSON text of a record, then a line end.
WholeLines(events) ==
    /\ Len(events) % 2 = 0
    /\ \A i \in DOMAIN events : (events[i] = 0) <=> (i % 2 = 0)

\* Every append to run r has returned Ok and its record is in events.jsonl.
AllReturned(r) ==
    /\ store # NoStore
    /\ \A h \in Handles : ~Appending(h)
    /\ store.returned[r] # <<>>
    /\ {store.runs[r].events[i] : i \in DOMAIN store.runs[r].events} \ {0}
          = {store.returned[r][k].n : k \in DOMAIN store.returned[r]}

\* C28: the store serializes its own writes: after append_record calls for
\* one run id, concurrent ones on handles of the same store included, every
\* record is a whole line of events.jsonl and the record_count of the
\* manifest is the number of lines.
C28_ConcurrentAppends ==
    \A r \in RunIds :
        AllReturned(r) =>
            /\ WholeLines(store.runs[r].events)
            /\ store.runs[r].manifest # <<>>
            /\ store.runs[r].manifest[1].record_count = LineCount(store.runs[r].events)

\* What a returned enforce_retention() did to the run directories, for the
\* cutoff now - retention_days.
RetentionApplied ==
    IF store.retention_days = 0 THEN store'.runs = store.runs
    ELSE \A r \in RunIds :
            store.runs[r].exists /\ store.runs[r].manifest # <<>> =>
                IF store.runs[r].manifest[1].created_at < store.now - store.retention_days
                THEN ~store'.runs[r].exists
                ELSE store'.runs[r] = store.runs[r]

\* C29: after enforce_retention() with retention_days > 0, no run directory
\* with created_at < now - retention_days remains and every one with
\* created_at at or after that cutoff is still there; with retention_days = 0
\* nothing is deleted.
C29_RetentionCutoff ==
    [][call'.fn = "enforce_retention" /\ call'.returned = "Ok" => RetentionApplied]_vars

\* Two fractions with positive denominators are equal.
SameFraction(p, q) == p[1] * q[2] = q[1] * p[2]

\* The completeness of the snapshot is a percentage between 0 and 100.
PercentInRange(percent) ==
    /\ percent[2] > 0
    /\ percent[1] >= 0
    /\ percent[1] <= 100 * percent[2]

\* max(1, expected_steps).
AtLeastOne(n) == IF n >= 1 THEN n ELSE 1

\* C30 as stated: the completeness_percent of the snapshot that finish()
\* returns lies in [0,100] and equals
\* min(100, 100 * |evidence_steps| / max(1, expected_steps)).
C30_CompletenessOverMaxOne ==
    call.fn = "finish" =>
        /\ PercentInRange(call.returned.completeness_percent)
        /\ SameFraction(call.returned.completeness_percent,
                        Min100(<<100 * Cardinality(collector.evidence_steps),
                                 AtLeastOne(collector.expected_steps)>>))

\* C30 amended: the completeness_percent of the snapshot lies in [0,100]; it
\* is 100 when expected_steps is 0, whatever evidence was recorded, and
\* min(100, 100 * |evidence_steps| / expected_steps) otherwise.
C30_CompletenessOrHundred ==
    call.fn = "finish" =>
        /\ PercentInRange(call.returned.completeness_percent)
        /\ SameFraction(call.returned.completeness_percent,
                        IF collector.expected_steps = 0 THEN <<100, 1>>
                        ELSE Min100(<<100 * Cardinality(collector.evidence_steps),
                                      collector.expected_steps>>))

\* finish() on a collector that expects no step and has no evidence: the
\* snapshot is complete.
C30_Witness ==
    /\ call.fn = "finish"
    /\ collector # NoCollector
    /\ collector.expected_steps = 0
    /\ collector.evidence_steps = {}
    /\ call.returned.completeness_percent = <<100, 1>>

\* The ready stories of this turn that the enqueue loop leaves out of the
\* pending queue because the queue is full under the Block policy.
BlockedNow ==
    IF pc = "enqueue" /\ cfg.queue_policy = "Block"
    THEN Range(ReadyStories)
            \ EnqueueLoop(ReadyStories, 1,
                          [q |-> pending_queue, ids |-> queued_ids,
                           overflow |-> <<>>, blocked |-> FALSE]).ids
    ELSE {}

\* C32: under the Block policy a story that finds the pending queue full is
\* eventually enqueued: the stories already queued are dispatched and the run
\* does not wait on the full queue forever. A run that returns, or whose log
\* has no room left, ends the obligation.
C32_BlockedEventuallyEnqueued ==
    \A s \in StoryIds :
        [](s \in BlockedNow => <>(s \in queued_ids \/ pc = "returned" \/ LogFull))

\* The stories whose tasks were spawned in this turn of the loop.
SpawnedThisTurn == {tasks[t].story : t \in handles}

\* C33: the batch story ids read before the batch wait (and used by the
\* timeout branch and by reconciliation) are exactly the ids of the stories
\* spawned in that turn, however the spawned tasks interleave with the
\* supervisor.
C33_BatchIsSpawned ==
    [][(pc = "dispatch" /\ pc' = "wait")
          => Range(batch_story_ids') = SpawnedThisTurn]_vars

\* A call of get_affected_stories has returned.
AffectedCalled == call # NoCall /\ call.fn = "get_affected_stories"
\* Some target file of s contains, or is contained in, an affected file.
Matches(s, issues) ==
    \E j \in DOMAIN Prd[s].target_files, f \in AffectedFiles(issues) :
        \/ Contains(Prd[s].target_files[j], f)
        \/ Contains(f, Prd[s].target_files[j])
HasImportDuplicate(issues) == \E i \in DOMAIN issues : issues[i].kind = "ImportDuplicate"

\* C34: get_affected_stories returns the whole batch when some issue is
\* ImportDuplicate or when no affected file matches a batch member; otherwise
\* the stories it returns are exactly the batch members with a target file
\* that contains, or is contained in, an affected file.
C34_AffectedStories ==
    AffectedCalled =>
        LET matched == {s \in Range(call.batch) : Matches(s, call.issues)}
        IN IF HasImportDuplicate(call.issues) \/ matched = {}
           THEN call.returned = call.batch
           ELSE Range(call.returned) = matched

\* A call without ImportDuplicate in which one batch member matches and the
\* other does not.
C34_Witness ==
    /\ AffectedCalled
    /\ ~HasImportDuplicate(call.issues)
    /\ Range(call.batch) = {"a", "b"}
    /\ Matches("a", call.issues) /\ ~Matches("b", call.issues)
    /\ Prd["b"].target_files # <<>>
    /\ call.returned # call.batch

\* C40: get_affected_stories returns each batch story id at most once (the
\* batch lists each of its stories once), so that the sequential fallback
\* runs every affected story once per reconciliation round.
C40_AffectedOnce ==
    AffectedCalled =>
        \A i, j \in DOMAIN call.returned :
            call.returned[i] = call.returned[j] => i = j

\* C35: at the start of every loop turn queued_ids is exactly the set of the
\* story ids in the pending queue, no id occurs twice in the queue, and no
\* queued story is in in_flight.
C35_QueueMirror ==
    pc = "loop" =>
        /\ queued_ids = Range(pending_queue)
        /\ \A i, j \in DOMAIN pending_queue :
              pending_queue[i] = pending_queue[j] => i = j
        /\ Range(pending_queue) \cap in_flight = {}

\* A turn starts with a story waiting in the queue whose task of an earlier,
\* timed-out dispatch is still running.
C35_Witness ==
    /\ pc = "loop"
    /\ \E t \in Slots : tasks[t].st = "running" /\ tasks[t].story \in Range(pending_queue)

\* Some story of the batch being waited for has failed: its task returned
\* without success, or it has not returned when the batch wait ends.
BatchHasFailure ==
    \E t \in handles : tasks[t].st # "done" \/ ~tasks[t].success

\* C36: with circuit_breaker_threshold = 0 the run ends with error_type
\* circuit_breaker after the first batch that contains a failure, and a batch
\* in which no story failed does not trigger the circuit breaker.
C36_ZeroThresholdTripsOnFailure ==
    [][(cfg.circuit_breaker_threshold = 0 /\ pc = "wait" /\ pc' # "wait")
          => ((pc' = "returned" /\ result'.error_type = "circuit_breaker")
                <=> BatchHasFailure)]_vars

\* The positions of the run_complete events in the evidence log.
RunCompletes == {i \in DOMAIN evidence : evidence[i].type = "run_complete"}

\* C37: once run() has returned, the log holds exactly one run_complete
\* event, it comes after the run_start event, and no step event follows it.
C37_RunCompleteIsLast ==
    pc = "returned" =>
        /\ Cardinality(RunCompletes) = 1
        /\ \A i \in RunCompletes :
              /\ \E j \in 1..(i - 1) : evidence[j].type = "run_start"
              /\ \A j \in (i + 1)..Len(evidence) : evidence[j].type # "step"

\* C38: no story id is in completed and in failed at once, so a result with
\* all_passed = true has no error and its run_complete event has status
\* success.
C38_CompletedFailedDisjoint ==
    /\ completed \cap failed = {}
    /\ (pc = "returned" /\ result.all_passed)
          => /\ result.error_type = "none"
             /\ \A i \in RunCompletes : evidence[i].status = "success"

\* A call of filter_conflicting_stories has returned.
FilterCalled == call # NoCall /\ call.fn = "filter_conflicting_stories"
\* The stories of the call that were left out of the filtered list.
LeftOut == Range(call.stories) \ Range(call.returned.filtered)

\* C39 as stated: filter_conflicting_stories leaves a story out only if some
\* story that stays in the filtered list shares a target file with it; a
\* story whose only conflicts are with stories that are themselves left out
\* is kept.
C39_LeftOutOnlyForKept ==
    FilterCalled =>
        \A y \in LeftOut :
            \E x \in Range(call.returned.filtered) : Overlap(x, y)

\* C39 amended: a story is left out exactly when some other story of the
\* given list shares a target file with it and runs first, whether or not
\* that other story stays in the filtered list.
C39_LeftOutForAnyEarlier ==
    FilterCalled =>
        \A y \in Range(call.stories) :
            y \in LeftOut <=>
                \E x \in Range(call.stories) \ {y} : Overlap(x, y) /\ RunsFirst(x, y)

\* A story was left out although it shares no target file with any story
\* that stays: the only story it conflicts with was left out as well.
C39_Witness ==
    /\ FilterCalled
    /\ \E y \in LeftOut :
          /\ \A x \in Range(call.returned.filtered) : ~Overlap(x, y)
          /\ \E x \in LeftOut \ {y} : Overlap(x, y) /\ RunsFirst(x, y)

\* The updates the callback has received for gate number g, in order.
UpdatesOf(g) ==
    SelectSeq(call.updates, LAMBDA u : u.gate_name = GateOrder[g])

\* The updates received so far are those of the gates in their fixed order,
\* Running and then one completion each, the completion being Passed exactly
\* when the result pushed for the gate has passed.
UpdatesInOrder ==
    /\ \A i \in DOMAIN call.updates :
          /\ call.updates[i].gate_name = GateOrder[(i + 1) \div 2]
          /\ i % 2 = 1 => call.updates[i].state = "Running"
          /\ i % 2 = 0 =>
                /\ call.updates[i].state \in {"Passed", "Failed"}
                /\ Len(call.results) >= i \div 2
                /\ call.updates[i].state = "Passed" <=> call.results[i \div 2].passed
    /\ \A g \in DOMAIN call.results : call.results[g].gate_name = GateOrder[g]

\* C31: run_all_gates_with_progress calls the callback exactly twice per
\* gate, first with Running and then with one of Passed or Failed, for the
\* gates coverage, tests, lint, format, security audit in that order, never
\* reporting Running for a gate before the previous gate has reported its
\* completion; the completion is Passed if and only if the result returned
\* for that gate has passed = true. The call returns with all of this done.
C31_TwoUpdatesPerGate ==
    /\ [](call.fn = "run_all_gates_with_progress" => UpdatesInOrder)
    /\ <>(/\ call.pc = "returned"
          /\ Len(call.results) = Len(GateOrder)
          /\ \A g \in DOMAIN GateOrder : Len(UpdatesOf(g)) = 2)

\* The call has returned after a gate failed and a later gate passed.
C31_Witness ==
    /\ call.fn = "run_all_gates_with_progress"
    /\ call.pc = "returned"
    /\ Len(call.updates) = 2 * Len(GateOrder)
    /\ ~call.results[2].passed
    /\ call.results[3].passed

====
